---- MODULE Spec2Model ----
(***************************************************************************)
(* State-machine model of one simulated OCPP 1.6 charging station: the    *)
(* incoming request service (router and command handlers), the            *)
(* configuration store it reads and writes, and the Automatic Transaction *)
(* Generator (ATG) with its per-connector driver loops.                    *)
(*                                                                         *)
(* Every action runs one coroutine from the point where it is resumed (a  *)
(* request arriving, a sleep ending, the response of an outbound request  *)
(* arriving) to its next suspension point, which is how the single        *)
(* threaded cooperative scheduler of the station interleaves them.         *)
(***************************************************************************)
EXTENDS Integers, Sequences, FiniteSets, TLC

(***************************************************************************)
(* Bounds of the model.                                                    *)
(***************************************************************************)
\* Longest key list of a GetConfiguration request.
MaxGetKeys == 1
\* Transaction ids the Central System hands out in one run.
MaxTx == 2
\* Incoming requests in one run of a station whose generator never runs.
MaxReq == 2
\* Incoming requests in one run of a station whose generator may run.
MaxGeneratorReq == 1
\* Connectors of the largest station descriptor.
MaxConnectors == 2

\* The ids of a connector map: 1.. are the connectors, 0 is the station.
ConnectorIds == 0..MaxConnectors

(***************************************************************************)
(* Values.                                                                 *)
(***************************************************************************)
Null == "null"
Undefined == "undefined"

RegistrationStates == {"Registered", "Pending", "Rejected", "Unknown"}

\* The keys of the station's configuration store, and the keys a request
\* may name: the stored ones, spellings that differ from a stored key in
\* letter case only, and a key that is in no store.
HeartBeatInterval == "HeartBeatInterval"
HeartbeatInterval == "HeartbeatInterval"
WebSocketPingInterval == "WebSocketPingInterval"
StoredKeys ==
    {HeartBeatInterval, HeartbeatInterval, WebSocketPingInterval,
     "NumberOfConnectors", "MeterValueSampleInterval"}
RequestKeys ==
    StoredKeys \cup {"heartbeatinterval", "VendorKey"}
ConfigValues == {"30", "60"}

\* String.prototype.toLowerCase on the keys of the model.
toLowerCase(key) ==
    CASE key \in {HeartBeatInterval, HeartbeatInterval, "heartbeatinterval"}
             -> "heartbeatinterval"
      [] key = WebSocketPingInterval -> "websocketpinginterval"
      [] key = "NumberOfConnectors" -> "numberofconnectors"
      [] key = "MeterValueSampleInterval" -> "metervaluesampleinterval"
      [] OTHER -> "vendorkey"

\* The commands of the incomingRequestHandlers map.
IncomingRequestHandlers ==
    {"Reset", "ClearCache", "UnlockConnector", "GetConfiguration",
     "ChangeConfiguration", "SetChargingProfile", "ClearChargingProfile",
     "ChangeAvailability", "RemoteStartTransaction",
     "RemoteStopTransaction", "GetDiagnostics", "TriggerMessage"}
\* A command of the protocol that has no entry in the map.
UnhandledCommand == "DataTransfer"

VARIABLES
    registration,       \* registration state of the station at the Central System
    stationInfo,        \* the flags of the station descriptor
    configurationKey,   \* the configuration store: a sequence of entries
    lastCall,           \* the last configuration command handled, and its outcome
    ocppRequestService, \* whether the outbound request service exists yet
    connectors,         \* the connector map: id -> connector status
    timeToStop,         \* AutomaticTransactionGenerator.timeToStop
    expired,            \* whether now > stopDate
    loop,               \* the startOnConnector driver of each connector id > 0
    stopCall,           \* the running call of stop() of each caller (0: the station)
    hand,               \* the incoming requests: message id -> handler state
    nextTx,             \* the next transaction id the Central System assigns
    csOpen,             \* the transactions open at the Central System
    stops,              \* StopTransaction requests emitted per transaction id:
                        \* by stop() and by the other routines
    emitted,            \* the outbound request the last step emitted
    handled,            \* the incoming request whose handling ended in the last step
    stopReturned        \* the call of stop() that returned in the last step

stationVars == <<registration, stationInfo>>
configVars == <<configurationKey, lastCall>>
atgVars == <<timeToStop, expired, loop, stopCall, stopReturned>>
coreVars ==
    <<ocppRequestService, connectors, timeToStop, expired, loop, stopCall,
      hand, nextTx, csOpen, stops, emitted, handled, stopReturned>>
vars ==
    <<registration, stationInfo, configurationKey, lastCall,
      ocppRequestService, connectors, timeToStop, expired, loop, stopCall,
      hand, nextTx, csOpen, stops, emitted, handled, stopReturned>>

(***************************************************************************)
(* Station predicates.                                                     *)
(***************************************************************************)
isRegistered == registration = "Registered"
isInPendingState == registration = "Pending"
isInUnknownState == registration = "Unknown"
getOcppStrictCompliance == stationInfo.ocppStrictCompliance

(***************************************************************************)
(* Request router: the gate of incomingRequestHandler.  The result is     *)
(* "run" when the handler of the command is called, else the error the    *)
(* router throws.                                                          *)
(***************************************************************************)
incomingRequestHandlerPendingAccepted(commandName) ==
    IF /\ getOcppStrictCompliance
       /\ isInPendingState
       /\ commandName \in {"RemoteStartTransaction", "RemoteStopTransaction"}
    THEN "SecurityError"
    ELSE IF isRegistered \/ isInPendingState
              \/ (~getOcppStrictCompliance /\ isInUnknownState)
         THEN IF commandName \in IncomingRequestHandlers
              THEN "run" ELSE "NotImplemented"
         ELSE "SecurityError"

incomingRequestHandler(commandName) ==
    IF /\ getOcppStrictCompliance
       /\ isInPendingState
       /\ commandName \in {"RemoteStartTransaction", "RemoteStopTransaction"}
    THEN "SecurityError"
    ELSE IF isRegistered \/ (~getOcppStrictCompliance /\ isInUnknownState)
         THEN IF commandName \in IncomingRequestHandlers
              THEN "run" ELSE "NotImplemented"
         ELSE "SecurityError"

(***************************************************************************)
(* Configuration store.                                                    *)
(***************************************************************************)
\* Index of the first entry of store s that key names, 0 when there is none.
getConfigurationKey(s, key, caseInsensitive) ==
    LET hits == {i \in 1..Len(s) :
                    IF caseInsensitive
                    THEN toLowerCase(s[i].key) = toLowerCase(key)
                    ELSE s[i].key = key}
    IN IF hits = {} THEN 0 ELSE CHOOSE i \in hits : \A j \in hits : i <= j

\* The store after writing value to the entry key names; a read-only entry
\* and a key that names no entry leave the store as it is.
setConfigurationKeyValue(s, key, value, caseInsensitive) ==
    LET i == getConfigurationKey(s, key, caseInsensitive)
    IN IF i = 0 \/ s[i].readonly THEN s
       ELSE [s EXCEPT ![i].value = value]

\* An entry whose visible flag was never set counts as visible.
isVisible(entry) == entry.visible # "false"

ReportedEntry(entry) ==
    [key |-> entry.key, readonly |-> entry.readonly, value |-> entry.value]

RECURSIVE VisibleEntries(_, _)
VisibleEntries(s, i) ==
    IF i > Len(s) THEN <<>>
    ELSE (IF isVisible(s[i]) THEN <<ReportedEntry(s[i])>> ELSE <<>>)
         \o VisibleEntries(s, i + 1)

RECURSIVE FoundEntries(_, _, _)
FoundEntries(s, keys, j) ==
    IF j > Len(keys) THEN <<>>
    ELSE LET i == getConfigurationKey(s, keys[j], FALSE)
         IN (IF i # 0 /\ isVisible(s[i]) THEN <<ReportedEntry(s[i])>> ELSE <<>>)
            \o FoundEntries(s, keys, j + 1)

RECURSIVE UnknownKeys(_, _, _)
UnknownKeys(s, keys, j) ==
    IF j > Len(keys) THEN <<>>
    ELSE (IF getConfigurationKey(s, keys[j], FALSE) = 0 THEN <<keys[j]>> ELSE <<>>)
         \o UnknownKeys(s, keys, j + 1)

\* GetConfiguration that reports every entry it finds, visible or not.
GetConfigurationReportsInvisible(s, keys) ==
    LET found(j) == getConfigurationKey(s, keys[j], FALSE)
    IN [configurationKey |->
            IF keys = <<>> THEN [i \in 1..Len(s) |-> ReportedEntry(s[i])]
            ELSE [j \in 1..Len(keys) |->
                     IF found(j) # 0 THEN ReportedEntry(s[found(j)])
                     ELSE [key |-> keys[j], readonly |-> FALSE, value |-> Null]],
        unknownKey |-> IF keys = <<>> THEN <<>> ELSE UnknownKeys(s, keys, 1),
        store |-> s]

\* GetConfiguration: the response, and the store after it (an entry the
\* handler looks at gets its missing visible flag set).
handleRequestGetConfiguration(s, keys) ==
    LET looked(i) == \/ keys = <<>>
                     \/ \E j \in 1..Len(keys) :
                            getConfigurationKey(s, keys[j], FALSE) = i
    IN [configurationKey |-> IF keys = <<>> THEN VisibleEntries(s, 1)
                             ELSE FoundEntries(s, keys, 1),
        unknownKey |-> IF keys = <<>> THEN <<>> ELSE UnknownKeys(s, keys, 1),
        store |-> [i \in 1..Len(s) |->
                      IF looked(i) /\ s[i].visible = Undefined
                      THEN [s[i] EXCEPT !.visible = "true"] ELSE s[i]]]

\* ChangeConfiguration: the response, the store after it, and the timers
\* it restarted, in the order of the calls.
ChangeConfigurationNoReadonlyCheck(s, key, value) ==
    LET k == getConfigurationKey(s, key, TRUE)
    IN IF k = 0
       THEN [response |-> "NotSupported", store |-> s, events |-> <<>>]
       ELSE [response |-> "Accepted",
             store |-> [s EXCEPT ![k].value = value], events |-> <<>>]

ChangeConfigurationNoSiblingWrite(s, key, value) ==
    LET k == getConfigurationKey(s, key, TRUE)
    IN IF k = 0
       THEN [response |-> "NotSupported", store |-> s, events |-> <<>>]
       ELSE IF s[k].readonly
       THEN [response |-> "Rejected", store |-> s, events |-> <<>>]
       ELSE LET valueChanged == s[k].value # value
                isAlias == s[k].key \in {HeartBeatInterval, HeartbeatInterval}
            IN [response |-> IF s[k].reboot THEN "RebootRequired" ELSE "Accepted",
                store |-> IF valueChanged
                          THEN setConfigurationKeyValue(s, key, value, TRUE)
                          ELSE s,
                events |->
                    (IF isAlias /\ valueChanged THEN <<"restartHeartbeat">> ELSE <<>>)
                    \o (IF s[k].key = WebSocketPingInterval /\ valueChanged
                        THEN <<"restartWebSocketPing">> ELSE <<>>)]

ChangeConfigurationAlwaysRestart(s, key, value) ==
    LET k == getConfigurationKey(s, key, TRUE)
    IN IF k = 0
       THEN [response |-> "NotSupported", store |-> s, events |-> <<>>]
       ELSE IF s[k].readonly
       THEN [response |-> "Rejected", store |-> s, events |-> <<>>]
       ELSE LET s1 == setConfigurationKeyValue(s, key, value, TRUE)
                s2 == IF s[k].key = HeartBeatInterval
                      THEN setConfigurationKeyValue(s1, HeartbeatInterval, value, FALSE)
                      ELSE s1
                s3 == IF s[k].key = HeartbeatInterval
                      THEN setConfigurationKeyValue(s2, HeartBeatInterval, value, FALSE)
                      ELSE s2
            IN [response |-> IF s[k].reboot THEN "RebootRequired" ELSE "Accepted",
                store |-> s3,
                events |->
                    (IF s[k].key \in {HeartBeatInterval, HeartbeatInterval}
                     THEN <<"restartHeartbeat">> ELSE <<>>)
                    \o (IF s[k].key = WebSocketPingInterval
                        THEN <<"restartWebSocketPing">> ELSE <<>>)]

ChangeConfigurationNoWrite(s, key, value) ==
    LET k == getConfigurationKey(s, key, TRUE)
    IN IF k = 0
       THEN [response |-> "NotSupported", store |-> s, events |-> <<>>]
       ELSE IF s[k].readonly
       THEN [response |-> "Rejected", store |-> s, events |-> <<>>]
       ELSE [response |-> IF s[k].reboot THEN "RebootRequired" ELSE "Accepted",
             store |-> s, events |-> <<>>]

handleRequestChangeConfiguration(s, key, value) ==
    LET k == getConfigurationKey(s, key, TRUE)
    IN IF k = 0
       THEN [response |-> "NotSupported", store |-> s, events |-> <<>>]
       ELSE IF s[k].readonly
       THEN [response |-> "Rejected", store |-> s, events |-> <<>>]
       ELSE LET valueChanged == s[k].value # value
                s1 == IF valueChanged
                      THEN setConfigurationKeyValue(s, key, value, TRUE)
                      ELSE s
                s2 == IF s[k].key = HeartBeatInterval /\ valueChanged
                      THEN setConfigurationKeyValue(s1, HeartbeatInterval, value, FALSE)
                      ELSE s1
                s3 == IF s[k].key = HeartbeatInterval /\ valueChanged
                      THEN setConfigurationKeyValue(s2, HeartBeatInterval, value, FALSE)
                      ELSE s2
                triggerHeartbeatRestart ==
                    /\ s[k].key \in {HeartBeatInterval, HeartbeatInterval}
                    /\ valueChanged
            IN [response |-> IF s[k].reboot THEN "RebootRequired" ELSE "Accepted",
                store |-> s3,
                events |->
                    (IF triggerHeartbeatRestart THEN <<"restartHeartbeat">> ELSE <<>>)
                    \o (IF s[k].key = WebSocketPingInterval /\ valueChanged
                        THEN <<"restartWebSocketPing">> ELSE <<>>)]

(***************************************************************************)
(* The configuration commands as the router handles them: gate, handler,  *)
(* sendResponse.  Both handlers are synchronous, so a request is handled  *)
(* in one step.                                                            *)
(***************************************************************************)
NoCall ==
    [command |-> Null, key |-> Null, value |-> Null, keys |-> <<>>,
     absent |-> FALSE, outcome |-> Null, response |-> Null, events |-> <<>>,
     configurationKey |-> <<>>, unknownKey |-> <<>>, before |-> <<>>]

ChangeConfigurationCall(key, value) ==
    LET gate == incomingRequestHandler("ChangeConfiguration")
        r == handleRequestChangeConfiguration(configurationKey, key, value)
    IN /\ IF gate = "run"
          THEN /\ configurationKey' = r.store
               /\ lastCall' = [NoCall EXCEPT
                                  !.command = "ChangeConfiguration",
                                  !.key = key, !.value = value,
                                  !.outcome = "response",
                                  !.response = r.response,
                                  !.events = r.events \o <<"sendResponse">>,
                                  !.before = configurationKey]
          ELSE /\ configurationKey' = configurationKey
               /\ lastCall' = [NoCall EXCEPT
                                  !.command = "ChangeConfiguration",
                                  !.key = key, !.value = value,
                                  !.outcome = gate,
                                  !.before = configurationKey]

ChangeConfiguration(key, value) ==
    /\ ChangeConfigurationCall(key, value)
    /\ UNCHANGED <<stationVars, coreVars>>

\* Utils.isEmptyArray(commandPayload.key): a request that carries no key
\* list is handled as one with an empty list.
isEmptyKeyArray(hasKey, keys) == ~hasKey \/ keys = <<>>

GetConfigurationPayload(hasKey, keys) ==
    LET gate == incomingRequestHandler("GetConfiguration")
        r == handleRequestGetConfiguration(
                 configurationKey,
                 IF isEmptyKeyArray(hasKey, keys) THEN <<>> ELSE keys)
    IN /\ IF gate = "run"
          THEN /\ configurationKey' = r.store
               /\ lastCall' = [NoCall EXCEPT
                                  !.command = "GetConfiguration",
                                  !.keys = keys,
                                  !.absent = ~hasKey,
                                  !.outcome = "response",
                                  !.response = "GetConfigurationResponse",
                                  !.events = <<"sendResponse">>,
                                  !.configurationKey = r.configurationKey,
                                  !.unknownKey = r.unknownKey,
                                  !.before = configurationKey]
          ELSE /\ configurationKey' = configurationKey
               /\ lastCall' = [NoCall EXCEPT
                                  !.command = "GetConfiguration",
                                  !.keys = keys,
                                  !.absent = ~hasKey,
                                  !.outcome = gate,
                                  !.before = configurationKey]

GetConfigurationCall(keys) == GetConfigurationPayload(TRUE, keys)

GetConfiguration(keys) ==
    /\ GetConfigurationCall(keys)
    /\ UNCHANGED <<stationVars, coreVars>>

\* GetConfiguration whose payload has no key field.
GetConfigurationNoKey ==
    /\ GetConfigurationPayload(FALSE, <<>>)
    /\ UNCHANGED <<stationVars, coreVars>>

KeyLists == UNION {[1..n -> RequestKeys] : n \in 0..MaxGetKeys}

(***************************************************************************)
(* Connector state.                                                        *)
(***************************************************************************)
NoTransaction == 0

NewConnector ==
    [status |-> "Available", availability |-> "Operative",
     transactionStarted |-> FALSE, transactionId |-> NoTransaction,
     transactionIdTag |-> Null, transactionRemoteStarted |-> FALSE,
     authorizeIdTag |-> Null, localAuthorizeIdTag |-> Null,
     idTagLocalAuthorized |-> FALSE, chargingProfiles |-> <<>>]

isChargingStationAvailable(cn) == cn[0].availability = "Operative"
isConnectorAvailable(cn, id) == cn[id].availability = "Operative"
hasAuthorizedTags == stationInfo.authorizedTags # {}

\* The connector that holds transaction tx, -1 when none does.
getConnectorIdByTransactionId(cn, tx) ==
    LET holders == {id \in DOMAIN cn : id > 0 /\ cn[id].transactionId = tx}
    IN IF tx = NoTransaction \/ holders = {} THEN -1
       ELSE CHOOSE id \in holders : \A other \in holders : id <= other

\* A profile set on a connector replaces the entries with its id or with its
\* purpose and stack level; without such an entry it is added on top.
setChargingProfile(cn, id, cp) ==
    LET old == cn[id].chargingProfiles
        matches(i) == \/ old[i].chargingProfileId = cp.chargingProfileId
                      \/ /\ old[i].stackLevel = cp.stackLevel
                         /\ old[i].chargingProfilePurpose = cp.chargingProfilePurpose
    IN [cn EXCEPT ![id].chargingProfiles =
            IF \E i \in 1..Len(old) : matches(i)
            THEN [i \in 1..Len(old) |-> IF matches(i) THEN cp ELSE old[i]]
            ELSE Append(old, cp)]

(***************************************************************************)
(* Outbound requests.  A coroutine that sends a request is suspended until *)
(* the response arrives; the connector state of a transaction changes when *)
(* the response is handled.                                                *)
(***************************************************************************)
ResponseStatuses == {"Accepted", "Invalid"}

NoEmission ==
    [command |-> Null, connectorId |-> -1, transactionId |-> NoTransaction,
     idTag |-> Null, detail |-> Null, by |-> Null, started |-> FALSE,
     availability |-> Null]

\* A request about connector id (-1: none), with the connector's state at
\* the time it is sent; detail is the status of a StatusNotification and the
\* reason of a StopTransaction; by is the routine that sends a StartTransaction
\* or a StopTransaction.
Emission(cn, command, id, tx, idTag, detail) ==
    [command |-> command, connectorId |-> id, transactionId |-> tx,
     idTag |-> idTag, detail |-> detail, by |-> Null,
     started |-> id \in DOMAIN cn /\ cn[id].transactionStarted,
     availability |-> IF id \in DOMAIN cn THEN cn[id].availability ELSE Null]

SentBy(routine, e) == [e EXCEPT !.by = routine]

StopTransactionRequest(cn, tx, reason, routine) ==
    SentBy(routine,
           Emission(cn, "StopTransaction", getConnectorIdByTransactionId(cn, tx),
                    tx, Null, reason))

StartTransactionRequest(cn, id, idTag, routine) ==
    SentBy(routine, Emission(cn, "StartTransaction", id, NoTransaction, idTag, Null))

StatusNotificationRequest(cn, id, status) ==
    Emission(cn, "StatusNotification", id, NoTransaction, Null, status)

\* The StopTransaction requests counted per transaction, up to this number.
MaxStopsCounted == 2

NoProfile ==
    [chargingProfileId |-> 0, chargingProfilePurpose |-> Null, stackLevel |-> 0]

\* The fields that a remote start writes, on a connector that no remote
\* start has touched.
NoRemoteStartFields ==
    [transactionRemoteStarted |-> FALSE, authorizeIdTag |-> Null,
     localAuthorizeIdTag |-> Null, idTagLocalAuthorized |-> FALSE,
     chargingProfiles |-> <<>>]

\* An incoming request that has not arrived yet.  A handler's record also
\* keeps the outbound requests it has sent so far (requests), which of them
\* it waits for (awaited, an index of requests, 0: none) and which of them
\* have ended with a response or an error (answered), the status of
\* the Authorize response it got (authorize), the status of the
\* StopTransaction response an UnlockConnector got (stop) and whether a
\* StatusNotification(Available) was sent for its connector since it
\* arrived (availableSent).  hasConnectorId tells a TriggerMessage payload
\* with a connectorId from one without; location is what the location of a
\* GetDiagnostics payload parses to, and ftp the outcomes of the FTP
\* operations of its handler so far; before is what the connector of a
\* RemoteStartTransaction held when the request arrived.
NoHandler ==
    [command |-> Null, pc |-> "unsent", connectorId |-> -1, idTag |-> Null,
     chargingProfile |-> NoProfile, transactionId |-> NoTransaction,
     type |-> Null, at |-> 0, outcome |-> Null, response |-> Null, sent |-> 0,
     requests |-> <<>>, authorize |-> Null, availableSent |-> FALSE,
     requestedMessage |-> Null, hasConnectorId |-> FALSE, location |-> Null,
     ftp |-> <<>>, awaited |-> 0, answered |-> {}, stop |-> Null,
     before |-> NoRemoteStartFields]

\* What a step shows outside: the request it emitted (e) and the incoming
\* request whose handling it ended (h).
EmitHandled(e, h) ==
    /\ emitted' = e
    /\ handled' = h
    /\ stops' = IF e.command = "StopTransaction" /\ e.transactionId \in DOMAIN stops
                THEN LET who == IF e.by = "stop" THEN "stop" ELSE "others"
                     IN [stops EXCEPT ![e.transactionId][who] =
                            IF @ < MaxStopsCounted THEN @ + 1 ELSE @]
                ELSE stops

Emit(e) == EmitHandled(e, NoHandler)

\* StartTransaction response: a transaction is created at the accept, with
\* the id the Central System assigned and the tag of the request.
handleResponseStartTransaction(cn, id, idTag, status, tx) ==
    IF status = "Accepted"
    THEN [cn EXCEPT ![id].transactionStarted = TRUE,
                    ![id].transactionId = tx,
                    ![id].transactionIdTag = idTag,
                    ![id].status = "Charging"]
    ELSE cn

\* StopTransaction response: the transaction is destroyed and the transient
\* fields of its connector are reset.
handleResponseStopTransaction(cn, tx) ==
    LET id == getConnectorIdByTransactionId(cn, tx)
    IN IF id # -1
       THEN [cn EXCEPT ![id].transactionStarted = FALSE,
                       ![id].transactionId = NoTransaction,
                       ![id].transactionIdTag = Null,
                       ![id].transactionRemoteStarted = FALSE,
                       ![id].authorizeIdTag = Null,
                       ![id].localAuthorizeIdTag = Null,
                       ![id].idTagLocalAuthorized = FALSE,
                       ![id].status =
                           IF /\ isChargingStationAvailable(cn)
                              /\ isConnectorAvailable(cn, id)
                           THEN "Available" ELSE "Unavailable"]
       ELSE cn

\* The Central System's books: it opens a transaction when it accepts a
\* StartTransaction and closes it when it answers the StopTransaction.
CentralSystemStart(id, status) ==
    /\ status = "Accepted" => nextTx <= MaxTx
    /\ nextTx' = IF status = "Accepted" THEN nextTx + 1 ELSE nextTx
    /\ csOpen' = IF status = "Accepted"
                 THEN csOpen \cup {[transactionId |-> nextTx, connectorId |-> id]}
                 ELSE csOpen

CentralSystemStop(tx) ==
    /\ nextTx' = nextTx
    /\ csOpen' = {t \in csOpen : t.transactionId # tx}

(***************************************************************************)
(* Automatic Transaction Generator.                                        *)
(***************************************************************************)
IdleCall ==
    [active |-> FALSE, at |-> 0, transactionId |-> NoTransaction, snap |-> {}]
NoReturn == [returned |-> FALSE, snap |-> {}]
\* A driver at pc; error tells that the last request of the driver raised an
\* error, and transactionId is the transaction that the driver has started
\* and sleeps for, or the one whose StopTransaction it has sent.
IdleLoop(pc) ==
    [pc |-> pc, tag |-> Null, transactionId |-> NoTransaction, error |-> FALSE]

\* The transactions running on the connectors.
StartedTransactions(cn) ==
    {cn[id].transactionId : id \in {k \in DOMAIN cn : cn[k].transactionStarted}}

\* stop(), from connector `from` on: the call suspended at the next
\* connector that has a running transaction, or the finished call.
stop(cn, from, snap) ==
    LET started == {id \in DOMAIN cn : id >= from /\ cn[id].transactionStarted}
    IN IF started = {} THEN IdleCall
       ELSE LET id == CHOOSE k \in started : \A other \in started : k <= other
            IN [active |-> TRUE, at |-> id,
                transactionId |-> cn[id].transactionId, snap |-> snap]

\* The head of the while loop of startOnConnector: where the driver of
\* connector id goes from there, with the call of stop() it makes.
startOnConnector(cn, id) ==
    LET stopping == stop(cn, 0, StartedTransactions(cn))
        callStop == [pc |-> IF stopping.active THEN "inStop" ELSE "done",
                     call |-> stopping, stopped |-> ~stopping.active]
        goto(pc) == [pc |-> pc, call |-> IdleCall, stopped |-> FALSE]
    IN IF timeToStop THEN goto("done")
       ELSE IF expired THEN callStop
       ELSE IF ~isRegistered THEN goto("done")
       ELSE IF ~isChargingStationAvailable(cn) THEN callStop
       ELSE IF ~isConnectorAvailable(cn, id) THEN goto("done")
       ELSE IF ~ocppRequestService THEN goto("waitInit")
       ELSE goto("sleepDelay")

\* Drivers that one connector may have at a time in the model.
MaxDrivers == 2

\* The ids of the drivers: the first start() spawns driver id for connector
\* id; a start() that finds the driver of a connector still alive spawns a
\* further driver for the connector, beside it.
DriverIds == 1..(MaxDrivers * MaxConnectors)

\* The connectorId that driver id was spawned with.
Connector(id) ==
    IF id \in DOMAIN connectors THEN id
    ELSE ((id - 1) % (Cardinality(DOMAIN connectors) - 1)) + 1

\* Driver id is back at the head of its loop.
LoopAgain(cn, id) ==
    LET top == startOnConnector(cn, Connector(id))
    IN /\ connectors' = cn
       /\ loop' = [loop EXCEPT ![id] = IdleLoop(top.pc)]
       /\ stopCall' = [stopCall EXCEPT ![id] = top.call]
       /\ timeToStop' = (timeToStop \/ top.stopped)
       /\ stopReturned' = IF top.stopped THEN [returned |-> TRUE, snap |-> {}]
                          ELSE NoReturn
       /\ Emit(IF top.call.active
               THEN StopTransactionRequest(cn, top.call.transactionId, "None", "stop")
               ELSE NoEmission)

\* The drivers of connector id that have not been spawned or have returned.
Returned(id) ==
    {d \in DOMAIN loop : Connector(d) = id /\ loop[d].pc \in {"idle", "done"}}

\* start(): a driver is spawned for every connector id > 0, whether or not
\* drivers of an earlier start() are still alive.
GeneratorStart ==
    LET ids == DOMAIN connectors \ {0}
        spawned == {CHOOSE d \in Returned(id) : \A other \in Returned(id) : d <= other :
                       id \in ids}
    IN /\ \A id \in ids : Returned(id) # {}
       /\ timeToStop' = FALSE
       /\ expired' = FALSE
       /\ loop' = [d \in DOMAIN loop |->
                      IF d \in spawned THEN IdleLoop("spawned") ELSE loop[d]]
       /\ stopReturned' = NoReturn
       /\ Emit(NoEmission)
       /\ UNCHANGED <<stationVars, configVars, ocppRequestService, connectors,
                      stopCall, hand, nextTx, csOpen>>

\* start() called by a station that starts its generator only when the
\* generator is stopped and the drivers of the last run have returned.
ATGStart ==
    /\ timeToStop
    /\ \A id \in DOMAIN loop : loop[id].pc \in {"idle", "done"}
    /\ GeneratorStart

\* The stop date of the running generator passes.
StopDatePasses ==
    /\ ~timeToStop /\ ~expired
    /\ expired' = TRUE
    /\ stopReturned' = NoReturn
    /\ Emit(NoEmission)
    /\ UNCHANGED <<stationVars, configVars, ocppRequestService, connectors,
                   timeToStop, loop, stopCall, hand, nextTx, csOpen>>

\* The station creates its outbound request service.
OcppRequestServiceCreated ==
    /\ ~ocppRequestService
    /\ ocppRequestService' = TRUE
    /\ stopReturned' = NoReturn
    /\ Emit(NoEmission)
    /\ UNCHANGED <<stationVars, configVars, connectors, timeToStop, expired,
                   loop, stopCall, hand, nextTx, csOpen>>

loopFrame == <<stationVars, configVars, ocppRequestService, expired, hand>>

\* setImmediate runs the spawned driver.
LoopRun(id) ==
    /\ id \in DOMAIN loop
    /\ loop[id].pc = "spawned"
    /\ LoopAgain(connectors, id)
    /\ UNCHANGED <<loopFrame, nextTx, csOpen>>

\* The wait for the request service ends (the do-while of the driver).
LoopInitWake(id) ==
    /\ id \in DOMAIN loop
    /\ loop[id].pc = "waitInit"
    /\ ocppRequestService
    /\ loop' = [loop EXCEPT ![id] = IdleLoop("sleepDelay")]
    /\ stopReturned' = NoReturn
    /\ Emit(NoEmission)
    /\ UNCHANGED <<loopFrame, connectors, timeToStop, stopCall, nextTx, csOpen>>

\* startTransaction: what the driver sends first.
startTransaction(cn, id, tagId) ==
    IF hasAuthorizedTags
    THEN IF stationInfo.requireAuthorize
         THEN [pc |-> "awaitAuthorize", tag |-> tagId,
               emit |-> Emission(cn, "Authorize", id, NoTransaction, tagId, Null)]
         ELSE [pc |-> "awaitStart", tag |-> tagId,
               emit |-> StartTransactionRequest(cn, id, tagId, "startTransaction")]
    ELSE [pc |-> "awaitStart", tag |-> Null,
          emit |-> StartTransactionRequest(cn, id, Null, "startTransaction")]

\* The sleep between two transactions ends: the draw starts a transaction
\* or skips it.
LoopDelayWake(id, start, tagId) ==
    /\ id \in DOMAIN loop
    /\ loop[id].pc = "sleepDelay"
    /\ IF start
       THEN LET r == startTransaction(connectors, Connector(id), tagId)
            IN /\ loop' = [loop EXCEPT ![id] =
                              [IdleLoop(r.pc) EXCEPT !.tag = r.tag]]
               /\ stopReturned' = NoReturn
               /\ Emit(r.emit)
               /\ UNCHANGED <<connectors, timeToStop, stopCall>>
       ELSE LoopAgain(connectors, id)
    /\ UNCHANGED <<loopFrame, nextTx, csOpen>>

LoopAuthorizeResponse(id, status) ==
    /\ id \in DOMAIN loop
    /\ loop[id].pc = "awaitAuthorize"
    /\ IF status = "Accepted"
       THEN /\ loop' = [loop EXCEPT ![id].pc = "awaitStart", ![id].error = FALSE]
            /\ Emit(StartTransactionRequest(connectors, Connector(id),
                                            loop[id].tag, "startTransaction"))
       ELSE /\ loop' = [loop EXCEPT ![id] = IdleLoop("sleepWait")]
            /\ Emit(NoEmission)
    /\ stopReturned' = NoReturn
    /\ UNCHANGED <<loopFrame, connectors, timeToStop, stopCall, nextTx, csOpen>>

LoopStartResponse(id, status) ==
    /\ id \in DOMAIN loop
    /\ loop[id].pc = "awaitStart"
    /\ CentralSystemStart(Connector(id), status)
    /\ connectors' = handleResponseStartTransaction(connectors, Connector(id),
                                                    loop[id].tag, status, nextTx)
    /\ loop' = [loop EXCEPT ![id] =
                   IF status = "Accepted"
                   THEN [IdleLoop("sleepDuration") EXCEPT !.transactionId = nextTx]
                   ELSE IdleLoop("sleepWait")]
    /\ stopReturned' = NoReturn
    /\ Emit(NoEmission)
    /\ UNCHANGED <<loopFrame, timeToStop, stopCall>>

\* The wait after a rejected start ends.
LoopWaitWake(id) ==
    /\ id \in DOMAIN loop
    /\ loop[id].pc = "sleepWait"
    /\ LoopAgain(connectors, id)
    /\ UNCHANGED <<loopFrame, nextTx, csOpen>>

LoopDurationWakeNoStop(id) ==
    /\ id \in DOMAIN loop
    /\ loop[id].pc = "sleepDuration"
    /\ LoopAgain(connectors, id)
    /\ UNCHANGED <<loopFrame, nextTx, csOpen>>

\* The duration of the transaction is over: the driver stops the
\* transaction that runs on its connector, if one does.
LoopDurationWake(id) ==
    /\ id \in DOMAIN loop
    /\ loop[id].pc = "sleepDuration"
    /\ IF connectors[Connector(id)].transactionStarted
       THEN /\ loop' = [loop EXCEPT ![id] =
                           [IdleLoop("awaitStop") EXCEPT
                               !.transactionId =
                                   connectors[Connector(id)].transactionId]]
            /\ stopReturned' = NoReturn
            /\ Emit(StopTransactionRequest(connectors,
                                           connectors[Connector(id)].transactionId,
                                           Null, "stopTransaction"))
            /\ UNCHANGED <<connectors, timeToStop, stopCall>>
       ELSE LoopAgain(connectors, id)
    /\ UNCHANGED <<loopFrame, nextTx, csOpen>>

LoopStopResponse(id) ==
    /\ id \in DOMAIN loop
    /\ loop[id].pc = "awaitStop"
    /\ CentralSystemStop(loop[id].transactionId)
    /\ LoopAgain(handleResponseStopTransaction(connectors,
                                               loop[id].transactionId),
                 id)
    /\ UNCHANGED loopFrame

\* A response arrives for the StopTransaction a call of stop() waits for:
\* the call goes on with the next connectors, and returns after the last.
StopCallResponse(caller) ==
    /\ caller \in DOMAIN stopCall
    /\ stopCall[caller].active
    /\ CentralSystemStop(stopCall[caller].transactionId)
    /\ LET cn == handleResponseStopTransaction(connectors,
                                               stopCall[caller].transactionId)
           next == stop(cn, stopCall[caller].at + 1, stopCall[caller].snap)
       IN /\ connectors' = cn
          /\ stopCall' = [stopCall EXCEPT ![caller] = next]
          /\ timeToStop' = (timeToStop \/ ~next.active)
          /\ stopReturned' = IF next.active THEN NoReturn
                             ELSE [returned |-> TRUE,
                                   snap |-> stopCall[caller].snap]
          /\ loop' = IF caller \in DOMAIN loop /\ ~next.active
                     THEN [loop EXCEPT ![caller] = IdleLoop("done")]
                     ELSE loop
          /\ Emit(IF next.active
                  THEN StopTransactionRequest(cn, next.transactionId, "None",
                                              "stop")
                  ELSE NoEmission)
    /\ UNCHANGED loopFrame

\* A request of the driver of connector id raises an error: nothing in
\* startOnConnector catches it, the driver ends and the catch of start()
\* drops the error.
LoopRequestFails(id) ==
    /\ id \in DOMAIN loop
    /\ loop[id].pc \in {"awaitAuthorize", "awaitStart", "awaitStop"}
    /\ loop' = [loop EXCEPT ![id] = [IdleLoop("done") EXCEPT !.error = TRUE]]
    /\ stopReturned' = NoReturn
    /\ Emit(NoEmission)
    /\ UNCHANGED <<loopFrame, connectors, timeToStop, stopCall, nextTx, csOpen>>

\* The StopTransaction that a call of stop() waits for raises an error: the
\* call ends without setting timeToStop, and with it the driver that made
\* the call.
StopCallFails(caller) ==
    /\ caller \in DOMAIN stopCall
    /\ stopCall[caller].active
    /\ stopCall' = [stopCall EXCEPT ![caller] = IdleCall]
    /\ loop' = IF caller \in DOMAIN loop
               THEN [loop EXCEPT ![caller] = [IdleLoop("done") EXCEPT !.error = TRUE]]
               ELSE loop
    /\ stopReturned' = NoReturn
    /\ Emit(NoEmission)
    /\ UNCHANGED <<loopFrame, connectors, timeToStop, nextTx, csOpen>>

\* The station calls stop() on its running generator.
StationStop ==
    /\ ~timeToStop
    /\ ~stopCall[0].active
    /\ LET call == stop(connectors, 0, StartedTransactions(connectors))
       IN /\ stopCall' = [stopCall EXCEPT ![0] = call]
          /\ timeToStop' = ~call.active
          /\ stopReturned' = IF call.active THEN NoReturn
                             ELSE [returned |-> TRUE, snap |-> {}]
          /\ Emit(IF call.active
                  THEN StopTransactionRequest(connectors, call.transactionId, "None",
                                              "stop")
                  ELSE NoEmission)
    /\ UNCHANGED <<loopFrame, connectors, loop, nextTx, csOpen>>

(***************************************************************************)
(* Connector commands.  A handler runs from the arrival of its request    *)
(* (after the gate of the router) or from the response it waits for to    *)
(* its next outbound request or to its return; the router then calls      *)
(* sendResponse.  A step of a handler is the connector map it leaves, the  *)
(* handler state it leaves and the request it emits.                       *)
(***************************************************************************)
Await(cn, h, pc, emit) ==
    [cn |-> cn,
     h |-> [h EXCEPT !.pc = pc,
                     !.requests = Append(@, <<emit.command, emit.detail>>),
                     !.awaited = Len(h.requests) + 1],
     emit |-> emit]

\* A request is sent that the handler does not wait for.
Send(cn, h, emit) ==
    [cn |-> cn,
     h |-> [h EXCEPT !.requests = Append(@, <<emit.command, emit.detail>>)],
     emit |-> emit]

\* The step of a handler that is resumed: the request that h waited for,
\* if any, has ended.
Resumed(h, step) ==
    [step EXCEPT !.h.answered =
                     @ \cup (IF h.awaited > 0 THEN {h.awaited} ELSE {})]

Return(cn, h, response) ==
    [cn |-> cn,
     h |-> [h EXCEPT !.pc = "done", !.outcome = "response",
                     !.response = response, !.sent = 1],
     emit |-> NoEmission]

\* The handler (or the router's gate) throws: no response is sent.
Raise(cn, h, error) ==
    [cn |-> cn, h |-> [h EXCEPT !.pc = "done", !.outcome = error],
     emit |-> NoEmission]

\* What is kept of a request whose handling has ended.
Ended(h) == [NoHandler EXCEPT !.pc = "done"]

\* What the handler of a RemoteStartTransaction sees of request e going out.
Observed(h, e) ==
    IF /\ h.command = "RemoteStartTransaction"
       /\ e.command = "StatusNotification"
       /\ e.detail = "Available"
       /\ e.connectorId = h.connectorId
    THEN [h EXCEPT !.availableSent = TRUE] ELSE h

HandlerStep(m, r) ==
    /\ connectors' = r.cn
    /\ hand' = [k \in DOMAIN hand |->
                   IF k # m THEN Observed(hand[k], r.emit)
                   ELSE IF r.h.pc = "done" THEN Ended(r.h)
                   ELSE Observed(r.h, r.emit)]
    /\ stopReturned' = NoReturn
    /\ EmitHandled(r.emit, IF r.h.outcome # Null THEN r.h ELSE NoHandler)

handlerFrame ==
    <<stationVars, configVars, ocppRequestService, timeToStop, expired, loop,
      stopCall>>

\* Request m is the next request to arrive.
NextRequest(m) ==
    /\ ocppRequestService
    /\ m \in DOMAIN hand
    /\ hand[m].pc = "unsent"
    /\ \A k \in 1..(m - 1) : hand[k].pc # "unsent"

\* Request m arrives: the router's gate, then the first step of the handler.
Arrives(m, h, firstStep) ==
    /\ NextRequest(m)
    /\ LET gate == incomingRequestHandler(h.command)
       IN HandlerStep(m, IF gate = "run" THEN firstStep
                         ELSE Raise(connectors, h, gate))
    /\ UNCHANGED <<handlerFrame, nextTx, csOpen>>

\* Request m is a configuration command: the call, and what it shows of
\* the request outside.
ConfigurationRequest(m) ==
    /\ LET h == [NoHandler EXCEPT !.command = lastCall'.command,
                                  !.pc = "done",
                                  !.outcome = lastCall'.outcome,
                                  !.response = lastCall'.response,
                                  !.sent = IF lastCall'.outcome = "response"
                                           THEN 1 ELSE 0]
       IN /\ hand' = [hand EXCEPT ![m] = Ended(h)]
          /\ EmitHandled(NoEmission, h)
    /\ stopReturned' = NoReturn
    /\ UNCHANGED <<stationVars, ocppRequestService, connectors, timeToStop,
                   expired, loop, stopCall, nextTx, csOpen>>

ChangeConfigurationRequest(m, key, value) ==
    /\ NextRequest(m)
    /\ ChangeConfigurationCall(key, value)
    /\ ConfigurationRequest(m)

GetConfigurationRequest(m, keys) ==
    /\ NextRequest(m)
    /\ GetConfigurationCall(keys)
    /\ ConfigurationRequest(m)

\* The response of the request that handler m waits for at pc arrives.
Resumes(m, pc, step) ==
    /\ m \in DOMAIN hand
    /\ hand[m].pc = pc
    /\ HandlerStep(m, Resumed(hand[m], step))
    /\ UNCHANGED handlerFrame

sendsEndMeterValues ==
    /\ stationInfo.beginEndMeterValues
    /\ stationInfo.ocppStrictCompliance
    /\ ~stationInfo.outOfOrderEndMeterValues

MeterValuesRequest(cn, id, tx) ==
    Emission(cn, "MeterValues", id, tx, Null, "Transaction.End")

\* ---- UnlockConnector ----
UnlockConnectorNoStationCheck(cn, h) ==
    LET id == h.connectorId
    IN IF id \in DOMAIN cn /\ cn[id].transactionStarted
       THEN LET tx == cn[id].transactionId
                h1 == [h EXCEPT !.transactionId = tx]
            IN IF sendsEndMeterValues
               THEN Await(cn, h1, "unlockMeterValues", MeterValuesRequest(cn, id, tx))
               ELSE Await(cn, h1, "unlockStop",
                          StopTransactionRequest(cn, tx, "UnlockCommand",
                                                 "handleRequestUnlockConnector"))
       ELSE Await(cn, h, "unlockStatus",
                  StatusNotificationRequest(cn, id, "Available"))

handleRequestUnlockConnector(cn, h) ==
    LET id == h.connectorId
    IN IF id = 0 THEN Return(cn, h, "NotSupported")
       ELSE IF id \in DOMAIN cn /\ cn[id].transactionStarted
       THEN LET tx == cn[id].transactionId
                h1 == [h EXCEPT !.transactionId = tx]
            IN IF sendsEndMeterValues
               THEN Await(cn, h1, "unlockMeterValues", MeterValuesRequest(cn, id, tx))
               ELSE Await(cn, h1, "unlockStop",
                          StopTransactionRequest(cn, tx, "UnlockCommand",
                                                 "handleRequestUnlockConnector"))
       ELSE Await(cn, h, "unlockStatus",
                  StatusNotificationRequest(cn, id, "Available"))

UnlockConnector(m, id) ==
    LET h == [NoHandler EXCEPT !.command = "UnlockConnector", !.connectorId = id]
    IN Arrives(m, h, handleRequestUnlockConnector(connectors, h))

UnlockConnectorMeterValuesSent(m) ==
    /\ Resumes(m, "unlockMeterValues",
               Await(connectors, hand[m], "unlockStop",
                     StopTransactionRequest(connectors, hand[m].transactionId,
                                            "UnlockCommand",
                                            "handleRequestUnlockConnector")))
    /\ UNCHANGED <<nextTx, csOpen>>

\* UnlockConnector that answers Unlocked whatever the StopTransaction
\* response.
UnlockConnectorStoppedAlwaysUnlocked(m, status) ==
    /\ Resumes(m, "unlockStop",
               Return(handleResponseStopTransaction(connectors,
                                                    hand[m].transactionId),
                      [hand[m] EXCEPT !.stop = status], "Unlocked"))
    /\ CentralSystemStop(hand[m].transactionId)

UnlockConnectorStopped(m, status) ==
    /\ Resumes(m, "unlockStop",
               Return(handleResponseStopTransaction(connectors,
                                                    hand[m].transactionId),
                      [hand[m] EXCEPT !.stop = status],
                      IF status = "Accepted" THEN "Unlocked" ELSE "UnlockFailed"))
    /\ CentralSystemStop(hand[m].transactionId)

UnlockConnectorStatusSent(m) ==
    /\ Resumes(m, "unlockStatus",
               IF hand[m].connectorId \in DOMAIN connectors
               THEN Return([connectors EXCEPT ![hand[m].connectorId].status =
                                                 "Available"],
                           hand[m], "Unlocked")
               ELSE Raise(connectors, hand[m], "HandlerError"))
    /\ UNCHANGED <<nextTx, csOpen>>

\* ---- RemoteStopTransaction ----
RemoteStopTransactionAnyRunning(cn, h) ==
    LET running == {k \in DOMAIN cn : k > 0 /\ cn[k].transactionStarted}
        id == IF running = {} THEN -1
              ELSE CHOOSE k \in running : \A other \in running : k <= other
    IN IF id # -1
       THEN Await(cn, [h EXCEPT !.connectorId = id], "remoteStopStatus",
                  StatusNotificationRequest(cn, id, "Finishing"))
       ELSE Return(cn, h, "Rejected")

handleRequestRemoteStopTransaction(cn, h) ==
    LET id == getConnectorIdByTransactionId(cn, h.transactionId)
    IN IF id # -1
       THEN Await(cn, [h EXCEPT !.connectorId = id], "remoteStopStatus",
                  StatusNotificationRequest(cn, id, "Finishing"))
       ELSE Return(cn, h, "Rejected")

RemoteStopTransaction(m, tx) ==
    LET h == [NoHandler EXCEPT !.command = "RemoteStopTransaction",
                               !.transactionId = tx]
    IN Arrives(m, h, handleRequestRemoteStopTransaction(connectors, h))

RemoteStopStatusSent(m) ==
    /\ Resumes(m, "remoteStopStatus",
               LET id == hand[m].connectorId
                   cn == [connectors EXCEPT ![id].status = "Finishing"]
               IN IF sendsEndMeterValues
                  THEN Await(cn, hand[m], "remoteStopMeterValues",
                             MeterValuesRequest(cn, id, hand[m].transactionId))
                  ELSE Await(cn, hand[m], "remoteStopStop",
                             StopTransactionRequest(
                                 cn, hand[m].transactionId, Null,
                                 "handleRequestRemoteStopTransaction")))
    /\ UNCHANGED <<nextTx, csOpen>>

RemoteStopMeterValuesSent(m) ==
    /\ Resumes(m, "remoteStopMeterValues",
               Await(connectors, hand[m], "remoteStopStop",
                     StopTransactionRequest(
                         connectors, hand[m].transactionId, Null,
                         "handleRequestRemoteStopTransaction")))
    /\ UNCHANGED <<nextTx, csOpen>>

RemoteStopStopped(m) ==
    /\ Resumes(m, "remoteStopStop",
               Return(handleResponseStopTransaction(connectors,
                                                    hand[m].transactionId),
                      hand[m], "Accepted"))
    /\ CentralSystemStop(hand[m].transactionId)

\* ---- ChangeAvailability ----
chargePointStatus(type) ==
    IF type = "Operative" THEN "Available" ELSE "Unavailable"

\* The loop over all connectors of ChangeAvailability(0), from connector
\* `from` on, while the response is still Accepted.
ChangeAllFrom(cn, h, from) ==
    IF from \notin DOMAIN cn THEN Return(cn, h, "Accepted")
    ELSE IF cn[from].transactionStarted
    THEN Return([id \in DOMAIN cn |->
                    IF id >= from THEN [cn[id] EXCEPT !.availability = h.type]
                    ELSE cn[id]],
                h, "Scheduled")
    ELSE LET cn1 == [cn EXCEPT ![from].availability = h.type]
         IN Await(cn1, [h EXCEPT !.at = from], "changeAllStatus",
                  StatusNotificationRequest(cn1, from, chargePointStatus(h.type)))

ChangeAvailabilityStatusNotAwaited(cn, h) ==
    LET id == h.connectorId
    IN IF id \notin DOMAIN cn THEN Return(cn, h, "Rejected")
       ELSE IF id = 0 THEN ChangeAllFrom(cn, h, 0)
       ELSE IF \/ cn[0].availability = "Operative"
               \/ (cn[0].availability = "Inoperative" /\ h.type = "Inoperative")
       THEN IF cn[id].transactionStarted
            THEN Return([cn EXCEPT ![id].availability = h.type], h, "Scheduled")
            ELSE LET cn1 == [cn EXCEPT ![id].availability = h.type]
                     sent == Send(cn1, h,
                                  StatusNotificationRequest(
                                      cn1, id, chargePointStatus(h.type)))
                 IN [Return([cn1 EXCEPT ![id].status = chargePointStatus(h.type)],
                            sent.h, "Accepted")
                        EXCEPT !.emit = sent.emit]
       ELSE Return(cn, h, "Rejected")

\* ChangeAvailability that does not look at the availability of connector 0.
ChangeAvailabilityNoStationCheck(cn, h) ==
    LET id == h.connectorId
    IN IF id \notin DOMAIN cn THEN Return(cn, h, "Rejected")
       ELSE IF id = 0 THEN ChangeAllFrom(cn, h, 0)
       ELSE IF cn[id].transactionStarted
            THEN Return([cn EXCEPT ![id].availability = h.type], h, "Scheduled")
            ELSE LET cn1 == [cn EXCEPT ![id].availability = h.type]
                 IN Await(cn1, h, "changeStatus",
                          StatusNotificationRequest(cn1, id,
                                                    chargePointStatus(h.type)))

handleRequestChangeAvailability(cn, h) ==
    LET id == h.connectorId
    IN IF id \notin DOMAIN cn THEN Return(cn, h, "Rejected")
       ELSE IF id = 0 THEN ChangeAllFrom(cn, h, 0)
       ELSE IF \/ cn[0].availability = "Operative"
               \/ (cn[0].availability = "Inoperative" /\ h.type = "Inoperative")
       THEN IF cn[id].transactionStarted
            THEN Return([cn EXCEPT ![id].availability = h.type], h, "Scheduled")
            ELSE LET cn1 == [cn EXCEPT ![id].availability = h.type]
                 IN Await(cn1, h, "changeStatus",
                          StatusNotificationRequest(cn1, id,
                                                    chargePointStatus(h.type)))
       ELSE Return(cn, h, "Rejected")

ChangeAvailability(m, id, type) ==
    LET h == [NoHandler EXCEPT !.command = "ChangeAvailability",
                               !.connectorId = id, !.type = type]
    IN Arrives(m, h, handleRequestChangeAvailability(connectors, h))

ChangeAvailabilityAllStatusSent(m) ==
    /\ Resumes(m, "changeAllStatus",
               ChangeAllFrom([connectors EXCEPT ![hand[m].at].status =
                                                   chargePointStatus(hand[m].type)],
                             hand[m], hand[m].at + 1))
    /\ UNCHANGED <<nextTx, csOpen>>

ChangeAvailabilityStatusSent(m) ==
    /\ Resumes(m, "changeStatus",
               Return([connectors EXCEPT ![hand[m].connectorId].status =
                                            chargePointStatus(hand[m].type)],
                      hand[m], "Accepted"))
    /\ UNCHANGED <<nextTx, csOpen>>

\* ---- RemoteStartTransaction ----
notifyRemoteStartTransactionRejected(cn, h) ==
    IF cn[h.connectorId].status # "Available"
    THEN Await(cn, h, "remoteStartRejected",
               StatusNotificationRequest(cn, h.connectorId, "Available"))
    ELSE Return(cn, h, "Rejected")

\* The profile of the request is installed when it is a TxProfile; any
\* other profile denies the start; no profile allows it.
setRemoteStartTransactionChargingProfile(cn, id, cp) ==
    IF cp # NoProfile /\ cp.chargingProfilePurpose = "TxProfile"
    THEN [allowed |-> TRUE, cn |-> setChargingProfile(cn, id, cp)]
    ELSE IF cp # NoProfile THEN [allowed |-> FALSE, cn |-> cn]
    ELSE [allowed |-> TRUE, cn |-> cn]

\* The authorization is settled: install the profile, send StartTransaction.
RemoteStartSend(cn, h) ==
    LET p == setRemoteStartTransactionChargingProfile(cn, h.connectorId,
                                                      h.chargingProfile)
        cn1 == [p.cn EXCEPT ![h.connectorId].transactionRemoteStarted = TRUE]
    IN IF p.allowed
       THEN Await(cn1, h, "remoteStartStart",
                  StartTransactionRequest(cn1, h.connectorId, h.idTag,
                                          "handleRequestRemoteStartTransaction"))
       ELSE notifyRemoteStartTransactionRejected(cn, h)

RemoteStartPreparedNoAuthorization(cn0, h) ==
    LET id == h.connectorId
        cn == [cn0 EXCEPT ![id].status = "Preparing"]
    IN IF ~isChargingStationAvailable(cn)
       THEN notifyRemoteStartTransactionRejected(cn, h)
       ELSE RemoteStartSend(cn, h)

\* The handler after StatusNotification(Preparing) was answered.
RemoteStartPrepared(cn0, h) ==
    LET id == h.connectorId
        cn == [cn0 EXCEPT ![id].status = "Preparing"]
    IN IF ~isChargingStationAvailable(cn)
       THEN notifyRemoteStartTransactionRejected(cn, h)
       ELSE IF ~stationInfo.authorizeRemoteTxRequests THEN RemoteStartSend(cn, h)
       ELSE IF /\ stationInfo.localAuthListEnabled
               /\ hasAuthorizedTags
               /\ h.idTag \in stationInfo.authorizedTags
       THEN RemoteStartSend([cn EXCEPT ![id].localAuthorizeIdTag = h.idTag,
                                       ![id].idTagLocalAuthorized = TRUE], h)
       ELSE IF stationInfo.mayAuthorizeAtRemoteStart
       THEN Await([cn EXCEPT ![id].authorizeIdTag = h.idTag], h,
                  "remoteStartAuthorize",
                  Emission(cn, "Authorize", id, NoTransaction, h.idTag, Null))
       ELSE notifyRemoteStartTransactionRejected(cn, h)

handleRequestRemoteStartTransaction(cn, h) ==
    IF h.connectorId # 0
    THEN Await(cn, h, "remoteStartStatus",
               StatusNotificationRequest(cn, h.connectorId, "Preparing"))
    ELSE notifyRemoteStartTransactionRejected(cn, h)

\* The fields of a connector that a remote start writes before it knows
\* whether the transaction starts.
RemoteStartFields(cn, id) ==
    IF id \in DOMAIN cn
    THEN [transactionRemoteStarted |-> cn[id].transactionRemoteStarted,
          authorizeIdTag |-> cn[id].authorizeIdTag,
          localAuthorizeIdTag |-> cn[id].localAuthorizeIdTag,
          idTagLocalAuthorized |-> cn[id].idTagLocalAuthorized,
          chargingProfiles |-> cn[id].chargingProfiles]
    ELSE NoRemoteStartFields

RemoteStartTransaction(m, id, idTag, cp) ==
    LET h == [NoHandler EXCEPT !.command = "RemoteStartTransaction",
                               !.connectorId = id, !.idTag = idTag,
                               !.chargingProfile = cp,
                               !.before = RemoteStartFields(connectors, id)]
    IN Arrives(m, h, handleRequestRemoteStartTransaction(connectors, h))

RemoteStartStatusSent(m) ==
    /\ Resumes(m, "remoteStartStatus",
               IF hand[m].connectorId \in DOMAIN connectors
               THEN RemoteStartPrepared(connectors, hand[m])
               ELSE Raise(connectors, hand[m], "HandlerError"))
    /\ UNCHANGED <<nextTx, csOpen>>

RemoteStartAuthorized(m, status) ==
    /\ Resumes(m, "remoteStartAuthorize",
               LET h == [hand[m] EXCEPT !.authorize = status]
               IN IF status = "Accepted" THEN RemoteStartSend(connectors, h)
                  ELSE notifyRemoteStartTransactionRejected(connectors, h))
    /\ UNCHANGED <<nextTx, csOpen>>

RemoteStartStarted(m, status) ==
    /\ Resumes(m, "remoteStartStart",
               LET cn == handleResponseStartTransaction(
                             connectors, hand[m].connectorId, hand[m].idTag,
                             status, nextTx)
               IN IF status = "Accepted" THEN Return(cn, hand[m], "Accepted")
                  ELSE notifyRemoteStartTransactionRejected(cn, hand[m]))
    /\ CentralSystemStart(hand[m].connectorId, status)

RemoteStartRejectedStatusSent(m) ==
    /\ Resumes(m, "remoteStartRejected",
               Return([connectors EXCEPT ![hand[m].connectorId].status =
                                            "Available"],
                      hand[m], "Rejected"))
    /\ UNCHANGED <<nextTx, csOpen>>

\* ---- SetChargingProfile, ClearChargingProfile ----
\* A number or a string that a payload or an object does not have.
UndefinedNumber == -1

\* The object {} that a cleared profile is replaced with, and an index of
\* the array that was never written (forEach skips it).
EmptyProfile ==
    [chargingProfileId |-> UndefinedNumber, chargingProfilePurpose |-> Undefined,
     stackLevel |-> UndefinedNumber]
Hole ==
    [chargingProfileId |-> UndefinedNumber, chargingProfilePurpose |-> "hole",
     stackLevel |-> UndefinedNumber]

checkFeatureProfile(featureProfile) ==
    CASE featureProfile = "SmartCharging" -> stationInfo.smartCharging
      [] featureProfile = "RemoteTrigger" -> stationInfo.remoteTrigger
      [] featureProfile = "FirmwareManagement" -> stationInfo.firmwareManagement
      [] OTHER -> FALSE

\* connectors.get(id): whether the map has a connector status for the id.
getConnectorStatus(cn, id) == id \in DOMAIN cn

isEmptyArray(profiles) == Len(profiles) = 0

SetChargingProfileNoTransactionCheck(cn, id, cp) ==
    IF ~checkFeatureProfile("SmartCharging")
    THEN [response |-> "NotSupported", cn |-> cn]
    ELSE IF ~getConnectorStatus(cn, id)
    THEN [response |-> "Rejected", cn |-> cn]
    ELSE IF cp.chargingProfilePurpose = "ChargePointMaxProfile" /\ id # 0
    THEN [response |-> "Rejected", cn |-> cn]
    ELSE [response |-> "Accepted", cn |-> setChargingProfile(cn, id, cp)]

handleRequestSetChargingProfile(cn, id, cp) ==
    IF ~checkFeatureProfile("SmartCharging")
    THEN [response |-> "NotSupported", cn |-> cn]
    ELSE IF ~getConnectorStatus(cn, id)
    THEN [response |-> "Rejected", cn |-> cn]
    ELSE IF cp.chargingProfilePurpose = "ChargePointMaxProfile" /\ id # 0
    THEN [response |-> "Rejected", cn |-> cn]
    ELSE IF /\ cp.chargingProfilePurpose = "TxProfile"
            /\ (id = 0 \/ ~cn[id].transactionStarted)
    THEN [response |-> "Rejected", cn |-> cn]
    ELSE [response |-> "Accepted", cn |-> setChargingProfile(cn, id, cp)]

SetChargingProfile(m, id, cp) ==
    LET h == [NoHandler EXCEPT !.command = "SetChargingProfile",
                               !.connectorId = id, !.chargingProfile = cp]
        r == handleRequestSetChargingProfile(connectors, id, cp)
    IN Arrives(m, h, Return(r.cn, h, r.response))

\* The test of the forEach callback: stored profile p is cleared by a
\* request with the fields q (the fields it lacks are undefined).
clearCurrentCP(p, q) ==
    \/ p.chargingProfileId = q.chargingProfileId
    \/ /\ q.chargingProfilePurpose = Undefined
       /\ p.stackLevel = q.stackLevel
    \/ /\ p.stackLevel \in {0, UndefinedNumber}
       /\ p.chargingProfilePurpose = q.chargingProfilePurpose
    \/ /\ p.stackLevel = q.stackLevel
       /\ p.chargingProfilePurpose = q.chargingProfilePurpose

LongestStack(cn) ==
    LET lens == {Len(cn[k].chargingProfiles) : k \in DOMAIN cn}
    IN CHOOSE n \in lens : \A other \in lens : other <= n

\* The indexes at which the loop over all connectors finds a profile to
\* clear: index i of the stack of some connector.
ClearedIndexes(cn, q) ==
    {i \in 1..LongestStack(cn) :
        \E k \in DOMAIN cn :
            /\ i <= Len(cn[k].chargingProfiles)
            /\ cn[k].chargingProfiles[i] # Hole
            /\ clearCurrentCP(cn[k].chargingProfiles[i], q)}

\* Writing {} at the indexes of the set to an array: the array grows to
\* the highest index written.
ClearAt(profiles, indexes) ==
    LET top == IF indexes = {} THEN 0
               ELSE CHOOSE i \in indexes : \A j \in indexes : j <= i
        len == IF top > Len(profiles) THEN top ELSE Len(profiles)
    IN [i \in 1..len |-> IF i \in indexes THEN EmptyProfile
                         ELSE IF i <= Len(profiles) THEN profiles[i]
                         ELSE Hole]

\* id is the connectorId of the payload (UndefinedNumber: none), q its
\* other fields.  connectorStatus is the status of connector id throughout.
handleRequestClearChargingProfile(cn, id, q) ==
    IF ~checkFeatureProfile("SmartCharging")
    THEN [response |-> "Unknown", cn |-> cn]
    ELSE IF ~getConnectorStatus(cn, id)
    THEN [response |-> "Unknown", cn |-> cn]
    ELSE IF id # 0 /\ ~isEmptyArray(cn[id].chargingProfiles)
    THEN [response |-> "Accepted",
          cn |-> [cn EXCEPT ![id].chargingProfiles = <<>>]]
    ELSE IF id = 0
    THEN LET indexes == ClearedIndexes(cn, q)
         IN [response |-> IF indexes # {} THEN "Accepted" ELSE "Unknown",
             cn |-> [cn EXCEPT ![id].chargingProfiles = ClearAt(@, indexes)]]
    ELSE [response |-> "Unknown", cn |-> cn]

ClearChargingProfile(m, id, q) ==
    LET h == [NoHandler EXCEPT !.command = "ClearChargingProfile",
                               !.connectorId = id, !.chargingProfile = q]
        r == handleRequestClearChargingProfile(connectors, id, q)
    IN Arrives(m, h, Return(r.cn, h, r.response))

\* ---- TriggerMessage ----
\* The messages that the switch of the handler has a case for, and one
\* that it has none for.
TriggerMessages == {"BootNotification", "Heartbeat", "StatusNotification"}
RequestedMessages == TriggerMessages \cup {"MeterValues"}

\* The handler returns its response and leaves a timer behind.
Schedule(cn, h, response) ==
    [cn |-> cn,
     h |-> [h EXCEPT !.pc = "triggerDelay", !.outcome = "response",
                     !.response = response, !.sent = 1],
     emit |-> NoEmission]

TriggerMessageNoConnectorIdCheck(cn, h) ==
    IF ~checkFeatureProfile("RemoteTrigger")
    THEN Return(cn, h, "NotImplemented")
    ELSE IF h.requestedMessage \in TriggerMessages
    THEN Schedule(cn, h, "Accepted")
    ELSE Return(cn, h, "NotImplemented")

handleRequestTriggerMessage(cn, h) ==
    IF ~checkFeatureProfile("RemoteTrigger")
    THEN Return(cn, h, "NotImplemented")
    ELSE IF h.hasConnectorId /\ h.connectorId < 0
    THEN Return(cn, h, "Rejected")
    ELSE IF h.requestedMessage \in TriggerMessages
    THEN Schedule(cn, h, "Accepted")
    ELSE Return(cn, h, "NotImplemented")

TriggerMessage(m, requestedMessage, hasConnectorId, id) ==
    LET h == [NoHandler EXCEPT !.command = "TriggerMessage",
                               !.requestedMessage = requestedMessage,
                               !.hasConnectorId = hasConnectorId,
                               !.connectorId = IF hasConnectorId THEN id ELSE @]
    IN Arrives(m, h, handleRequestTriggerMessage(connectors, h))

\* The requests that the callback of the timer sends, in the order it sends
\* them.  A StatusNotification is sent for the connector of the payload when
\* its connectorId is truthy, else for every connector; reading the status
\* of a connector that the map does not have ends the callback.
TriggeredRequests(cn, h) ==
    IF h.requestedMessage # "StatusNotification"
    THEN <<Emission(cn, h.requestedMessage, -1, NoTransaction, Null, Null)>>
    ELSE IF h.hasConnectorId /\ h.connectorId # 0
    THEN IF getConnectorStatus(cn, h.connectorId)
         THEN <<StatusNotificationRequest(cn, h.connectorId,
                                          cn[h.connectorId].status)>>
         ELSE <<>>
    ELSE [i \in 1..Cardinality(DOMAIN cn) |->
             StatusNotificationRequest(cn, i - 1, cn[i - 1].status)]

\* The trigger delay is over: the callback sends its requests without
\* waiting for their responses.  The step shows the last request it sent;
\* the record of the trigger message lists them all.
TriggerMessageDelayPassed(m) ==
    /\ Resumes(m, "triggerDelay",
               LET sent == TriggeredRequests(connectors, hand[m])
                   h == [hand[m] EXCEPT
                            !.requests = @ \o [i \in 1..Len(sent) |->
                                                  <<sent[i].command, sent[i].detail>>]]
               IN [cn |-> connectors,
                   h |-> [h EXCEPT !.pc = IF h.requestedMessage = "BootNotification"
                                          THEN "triggerBoot" ELSE "triggered",
                                   !.outcome = Null],
                   emit |-> IF sent = <<>> THEN NoEmission ELSE sent[Len(sent)]])
    /\ UNCHANGED <<nextTx, csOpen>>

\* The response of a triggered BootNotification becomes the station's
\* bootNotificationResponse; an error of the request is dropped.
BootNotificationError == "error"
BootNotificationOutcomes ==
    {"Registered", "Pending", "Rejected", BootNotificationError}

TriggeredBootNotificationAnswered(m, outcome) ==
    /\ m \in DOMAIN hand
    /\ hand[m].pc = "triggerBoot"
    /\ registration' = IF outcome = BootNotificationError THEN registration
                       ELSE outcome
    /\ HandlerStep(m, [cn |-> connectors,
                       h |-> [hand[m] EXCEPT !.pc = "triggered"],
                       emit |-> NoEmission])
    /\ UNCHANGED <<stationInfo, configVars, ocppRequestService, timeToStop,
                   expired, loop, stopCall, nextTx, csOpen>>

\* ---- GetDiagnostics ----
\* What new URL(location) makes of the location of the payload: a URL with
\* the ftp scheme, a URL with another scheme, or a TypeError.
Locations == {"ftp:", "http:", "TypeError"}

\* The outcomes of an FTP operation: the code of its reply, or an exception.
FtpException == 0
FtpAccessOutcomes == {220, 530, FtpException}
FtpUploadOutcomes == {226, 550, FtpException}

\* The progress callbacks of one upload.
MaxProgress == 1

DiagnosticsStatusNotificationRequest(cn, status) ==
    Emission(cn, "DiagnosticsStatusNotification", -1, NoTransaction, Null, status)

\* The handler is suspended at an FTP operation.
Suspend(cn, h, pc) ==
    [cn |-> cn, h |-> [h EXCEPT !.pc = pc, !.awaited = 0], emit |-> NoEmission]

\* The catch block: the final UploadFailed notification is sent.
DiagnosticsUploadFailed(cn, h) ==
    Await(cn, h, "diagnosticsFailed",
          DiagnosticsStatusNotificationRequest(cn, "UploadFailed"))

\* archived: whether the archive of the log files could be created.
handleRequestGetDiagnostics(cn, h, archived) ==
    IF ~checkFeatureProfile("FirmwareManagement") THEN Return(cn, h, "Empty")
    ELSE IF h.location = "TypeError" THEN Raise(cn, h, "HandlerError")
    ELSE IF h.location = "ftp:"
    THEN IF archived THEN Suspend(cn, h, "diagnosticsAccess")
         ELSE DiagnosticsUploadFailed(cn, h)
    ELSE Await(cn, h, "diagnosticsUnsupported",
               DiagnosticsStatusNotificationRequest(cn, "UploadFailed"))

GetDiagnostics(m, location, archived) ==
    LET h == [NoHandler EXCEPT !.command = "GetDiagnostics", !.location = location]
    IN Arrives(m, h, handleRequestGetDiagnostics(connectors, h, archived))

\* ftpClient.access has ended.
GetDiagnosticsAccessed(m, outcome) ==
    /\ Resumes(m, "diagnosticsAccess",
               LET h == [hand[m] EXCEPT !.ftp = Append(@, outcome)]
               IN IF outcome = 220 THEN Suspend(connectors, h, "diagnosticsUpload")
                  ELSE DiagnosticsUploadFailed(connectors, h))
    /\ UNCHANGED <<nextTx, csOpen>>

\* The progress callback runs during the upload: it sends an Uploading
\* notification that the handler does not wait for.
GetDiagnosticsProgress(m) ==
    /\ m \in DOMAIN hand
    /\ hand[m].at < MaxProgress
    /\ Resumes(m, "diagnosticsUpload",
               Send(connectors, [hand[m] EXCEPT !.at = @ + 1],
                    DiagnosticsStatusNotificationRequest(connectors, "Uploading")))
    /\ UNCHANGED <<nextTx, csOpen>>

\* ftpClient.uploadFrom has ended.
GetDiagnosticsUploaded(m, outcome) ==
    /\ Resumes(m, "diagnosticsUpload",
               LET h == [hand[m] EXCEPT !.ftp = Append(@, outcome)]
               IN IF outcome = 226
                  THEN Await(connectors, h, "diagnosticsUploaded",
                             DiagnosticsStatusNotificationRequest(connectors,
                                                                  "Uploaded"))
                  ELSE DiagnosticsUploadFailed(connectors, h))
    /\ UNCHANGED <<nextTx, csOpen>>

\* The Uploaded notification was answered (answered), or its request failed.
GetDiagnosticsUploadedSent(m, answered) ==
    /\ Resumes(m, "diagnosticsUploaded",
               IF answered THEN Return(connectors, hand[m], "fileName")
               ELSE DiagnosticsUploadFailed(connectors, hand[m]))
    /\ UNCHANGED <<nextTx, csOpen>>

\* The UploadFailed notification of the catch block was answered, and
\* handleIncomingRequestError returns the empty response; or its request
\* failed, and the error leaves the handler.
GetDiagnosticsFailedSent(m, answered) ==
    /\ Resumes(m, "diagnosticsFailed",
               IF answered THEN Return(connectors, hand[m], "Empty")
               ELSE Raise(connectors, hand[m], "HandlerError"))
    /\ UNCHANGED <<nextTx, csOpen>>

\* The same for the UploadFailed notification of an unsupported scheme.
GetDiagnosticsUnsupportedSent(m, answered) ==
    /\ Resumes(m, "diagnosticsUnsupported",
               IF answered THEN Return(connectors, hand[m], "Empty")
               ELSE Raise(connectors, hand[m], "HandlerError"))
    /\ UNCHANGED <<nextTx, csOpen>>

\* ---- a command that has no handler ----
UnhandledRequest(m) ==
    LET h == [NoHandler EXCEPT !.command = UnhandledCommand]
    IN Arrives(m, h, Raise(connectors, h, "HandlerError"))

(***************************************************************************)
(* Initial states.                                                         *)
(***************************************************************************)
Entry(key, value, readonly, visible, reboot) ==
    [key |-> key, value |-> value, readonly |-> readonly,
     visible |-> visible, reboot |-> reboot]

\* The stores a station descriptor may set up: the two heartbeat aliases
\* hold one setting (same value, same read-only flag), in either order.
InitialStores ==
    {<<Entry(first, "60", ro, "true", FALSE),
       Entry(IF first = HeartBeatInterval THEN HeartbeatInterval ELSE HeartBeatInterval,
             "60", ro, vis, FALSE),
       Entry(WebSocketPingInterval, "60", FALSE, Undefined, FALSE),
       Entry("NumberOfConnectors", "30", TRUE, "true", FALSE),
       Entry("MeterValueSampleInterval", "60", FALSE, "true", TRUE)>> :
        first \in {HeartBeatInterval, HeartbeatInterval},
        ro \in BOOLEAN, vis \in {"true", "false"}}

\* The flags of a station descriptor.
StationInfo(strict, tags, authorize) ==
    [ocppStrictCompliance |-> strict,
     authorizedTags |-> tags,
     requireAuthorize |-> authorize,
     authorizeRemoteTxRequests |-> authorize,
     localAuthListEnabled |-> authorize,
     mayAuthorizeAtRemoteStart |-> authorize,
     beginEndMeterValues |-> strict,
     outOfOrderEndMeterValues |-> FALSE,
     smartCharging |-> TRUE,
     remoteTrigger |-> TRUE,
     firmwareManagement |-> TRUE]

\* The same station without the SmartCharging feature profile.
WithoutSmartCharging(info) == [info EXCEPT !.smartCharging = FALSE]

\* The tags of the station's list, and the tags a request may carry.
AuthorizedTags == {"TAG"}
RequestTags == AuthorizedTags \cup {"GUEST"}

\* A station without tags that authorizes nothing, in either compliance
\* mode, and a strict one that authorizes every start.
StationInfos ==
    {StationInfo(strict, {}, FALSE) : strict \in BOOLEAN}
        \cup {StationInfo(TRUE, AuthorizedTags, TRUE)}

\* The connector ids a request may name: the station, a connector, and an
\* id that is not in the connector map.
RequestConnectorIds == {0, 1, MaxConnectors + 1}

\* The profiles a RemoteStartTransaction may carry.
RequestProfiles ==
    {NoProfile,
     [chargingProfileId |-> 1, chargingProfilePurpose |-> "TxProfile",
      stackLevel |-> 0],
     [chargingProfileId |-> 2, chargingProfilePurpose |-> "TxDefaultProfile",
      stackLevel |-> 0]}

\* A station descriptor with its load: the connectors it has and the
\* incoming requests of the run.
Descriptor(numConnectors, requests) ==
    [connectors |-> numConnectors, requests |-> requests]

\* The station after construction from descriptor d: no transaction, no
\* generator running, the incoming requests not yet arrived.
InitDrivers(d, drivers) ==
    /\ connectors = [id \in 0..d.connectors |-> NewConnector]
    /\ timeToStop = TRUE
    /\ expired = FALSE
    /\ loop = [id \in 1..(drivers * d.connectors) |-> IdleLoop("idle")]
    /\ stopCall = [caller \in 0..(drivers * d.connectors) |-> IdleCall]
    /\ hand = [m \in 1..d.requests |-> NoHandler]
    /\ nextTx = 1
    /\ csOpen = {}
    /\ stops = [tx \in 1..MaxTx |-> [stop |-> 0, others |-> 0]]
    /\ emitted = NoEmission
    /\ handled = NoHandler
    /\ stopReturned = NoReturn

\* The station after construction from descriptor d, with room for one
\* driver per connector.
InitStation(d) == InitDrivers(d, 1)

InitConfiguration ==
    /\ registration \in RegistrationStates
    /\ stationInfo \in {StationInfo(strict, {}, FALSE) : strict \in BOOLEAN}
    /\ configurationKey \in InitialStores
    /\ lastCall = NoCall
    /\ ocppRequestService = TRUE
    /\ InitStation(Descriptor(1, 0))

NextConfiguration ==
    \/ \E key \in RequestKeys, value \in ConfigValues :
          ChangeConfiguration(key, value)
    \/ \E keys \in KeyLists : GetConfiguration(keys)
    \/ GetConfigurationNoKey

SpecConfiguration == InitConfiguration /\ [][NextConfiguration]_vars

\* The generator and its drivers.
NextGenerator ==
    \/ ATGStart
    \/ StopDatePasses
    \/ StationStop
    \/ \E caller \in ConnectorIds : StopCallResponse(caller)
    \/ \E id \in 1..MaxConnectors :
          \/ LoopRun(id)
          \/ LoopInitWake(id)
          \/ \E start \in BOOLEAN,
                tagId \in (IF hasAuthorizedTags THEN stationInfo.authorizedTags
                           ELSE {Null}) :
                LoopDelayWake(id, start, tagId)
          \/ \E status \in ResponseStatuses : LoopAuthorizeResponse(id, status)
          \/ \E status \in ResponseStatuses : LoopStartResponse(id, status)
          \/ LoopWaitWake(id)
          \/ LoopDurationWake(id)
          \/ LoopStopResponse(id)

\* The connector commands: the requests that arrive and the responses that
\* resume their handlers.
NextCommands ==
    \E m \in 1..MaxReq :
        \/ \E id \in RequestConnectorIds : UnlockConnector(m, id)
        \/ UnlockConnectorMeterValuesSent(m)
        \/ \E status \in ResponseStatuses : UnlockConnectorStopped(m, status)
        \/ UnlockConnectorStatusSent(m)
        \/ \E tx \in 1..(MaxTx + 1) : RemoteStopTransaction(m, tx)
        \/ RemoteStopStatusSent(m)
        \/ RemoteStopMeterValuesSent(m)
        \/ RemoteStopStopped(m)
        \/ \E id \in RequestConnectorIds, type \in {"Operative", "Inoperative"} :
              ChangeAvailability(m, id, type)
        \/ ChangeAvailabilityAllStatusSent(m)
        \/ ChangeAvailabilityStatusSent(m)
        \/ \E id \in RequestConnectorIds, idTag \in RequestTags,
                cp \in RequestProfiles :
              RemoteStartTransaction(m, id, idTag, cp)
        \/ RemoteStartStatusSent(m)
        \/ \E status \in ResponseStatuses : RemoteStartAuthorized(m, status)
        \/ \E status \in ResponseStatuses : RemoteStartStarted(m, status)
        \/ RemoteStartRejectedStatusSent(m)
        \/ UnhandledRequest(m)

Init ==
    /\ registration \in RegistrationStates
    /\ stationInfo \in {StationInfo(FALSE, {}, FALSE),
                         StationInfo(TRUE, AuthorizedTags, TRUE)}
    /\ configurationKey \in {s \in InitialStores :
                                /\ s[1].key = HeartBeatInterval
                                /\ ~s[1].readonly
                                /\ s[2].visible = "true"}
    /\ lastCall = NoCall
    /\ ocppRequestService = FALSE
    /\ \E d \in {Descriptor(MaxConnectors, 0), Descriptor(1, MaxGeneratorReq)} :
          InitStation(d)

Next == OcppRequestServiceCreated \/ NextGenerator \/ NextCommands

Spec == Init /\ [][Next]_vars

\* The router alone: a connected station in every registration state that
\* receives connector commands and configuration commands, and whose
\* generator never runs.
InitRouter ==
    /\ registration \in RegistrationStates
    /\ stationInfo \in StationInfos
    /\ configurationKey \in {s \in InitialStores :
                                /\ s[1].key = HeartBeatInterval
                                /\ ~s[1].readonly
                                /\ s[2].visible = "true"}
    /\ lastCall = NoCall
    /\ ocppRequestService = TRUE
    /\ InitStation(Descriptor(MaxConnectors, MaxReq))

NextRouter ==
    \/ NextCommands
    \/ \E m \in 1..MaxReq :
          \/ \E key \in RequestKeys, value \in ConfigValues :
                ChangeConfigurationRequest(m, key, value)
          \/ \E keys \in KeyLists : GetConfigurationRequest(m, keys)

SpecRouter == InitRouter /\ [][NextRouter]_vars

\* The charging profiles: a station, with or without the SmartCharging
\* feature profile, that receives SetChargingProfile and
\* ClearChargingProfile, and the remote start and stop of the transactions
\* that a TxProfile needs.
MaxProfileReq == 3

Profile(id, purpose, stackLevel) ==
    [chargingProfileId |-> id, chargingProfilePurpose |-> purpose,
     stackLevel |-> stackLevel]

\* The profiles of the SetChargingProfile requests.
SetProfiles ==
    {Profile(7, "TxDefaultProfile", 0), Profile(8, "TxDefaultProfile", 1),
     Profile(7, "TxProfile", 0), Profile(9, "ChargePointMaxProfile", 0)}

\* The fields of the ClearChargingProfile requests other than connectorId.
ClearFields ==
    {Profile(id, purpose, stackLevel) :
        id \in {UndefinedNumber, 7},
        purpose \in {Undefined, "TxDefaultProfile"},
        stackLevel \in {UndefinedNumber, 0}}

InitProfiles ==
    /\ registration = "Registered"
    /\ stationInfo \in {StationInfo(FALSE, {}, FALSE),
                         WithoutSmartCharging(StationInfo(FALSE, {}, FALSE))}
    /\ configurationKey \in {s \in InitialStores :
                                /\ s[1].key = HeartBeatInterval
                                /\ ~s[1].readonly
                                /\ s[2].visible = "true"}
    /\ lastCall = NoCall
    /\ ocppRequestService = TRUE
    /\ InitStation(Descriptor(MaxConnectors, MaxProfileReq))

NextProfiles ==
    \E m \in 1..MaxProfileReq :
        \/ \E id \in 0..(MaxConnectors + 1), cp \in SetProfiles :
              SetChargingProfile(m, id, cp)
        \/ \E id \in {UndefinedNumber} \cup 0..(MaxConnectors + 1),
                q \in ClearFields :
              ClearChargingProfile(m, id, q)
        \/ \E id \in 1..MaxConnectors, cp \in {NoProfile, Profile(7, "TxProfile", 0)} :
              RemoteStartTransaction(m, id, "TAG", cp)
        \/ RemoteStartStatusSent(m)
        \/ \E status \in ResponseStatuses : RemoteStartStarted(m, status)
        \/ RemoteStartRejectedStatusSent(m)
        \/ \E tx \in 1..MaxTx : RemoteStopTransaction(m, tx)
        \/ RemoteStopStatusSent(m)
        \/ RemoteStopStopped(m)

SpecProfiles == InitProfiles /\ [][NextProfiles]_vars

\* The remote start: a registered station with every setting of the
\* authorization flags, with and without a list of authorized tags, that
\* receives RemoteStartTransaction and ChangeAvailability.
RemoteStartInfos ==
    {[StationInfo(FALSE, tags, FALSE) EXCEPT
          !.authorizeRemoteTxRequests = remote,
          !.localAuthListEnabled = localList,
          !.mayAuthorizeAtRemoteStart = mayAuthorize] :
        tags \in {{}, AuthorizedTags},
        remote \in BOOLEAN, localList \in BOOLEAN, mayAuthorize \in BOOLEAN}

InitRemoteStart ==
    /\ registration = "Registered"
    /\ stationInfo \in RemoteStartInfos
    /\ configurationKey \in {s \in InitialStores :
                                /\ s[1].key = HeartBeatInterval
                                /\ ~s[1].readonly
                                /\ s[2].visible = "true"}
    /\ lastCall = NoCall
    /\ ocppRequestService = TRUE
    /\ InitStation(Descriptor(MaxConnectors, MaxReq))

NextRemoteStart ==
    \E m \in 1..MaxReq :
        \/ \E id \in RequestConnectorIds, idTag \in RequestTags,
                cp \in RequestProfiles :
              RemoteStartTransaction(m, id, idTag, cp)
        \/ RemoteStartStatusSent(m)
        \/ \E status \in ResponseStatuses : RemoteStartAuthorized(m, status)
        \/ \E status \in ResponseStatuses : RemoteStartStarted(m, status)
        \/ RemoteStartRejectedStatusSent(m)
        \/ \E id \in RequestConnectorIds, type \in {"Operative", "Inoperative"} :
              ChangeAvailability(m, id, type)
        \/ ChangeAvailabilityAllStatusSent(m)
        \/ ChangeAvailabilityStatusSent(m)

SpecRemoteStart == InitRemoteStart /\ [][NextRemoteStart]_vars

\* The stop of a transaction from outside: a registered station with every
\* setting of the flags that decide on the transaction-end MeterValues, that
\* receives RemoteStartTransaction, UnlockConnector and
\* RemoteStopTransaction.
MaxStopReq == 3

EndMeterValuesInfos ==
    {[StationInfo(strict, {}, FALSE) EXCEPT
          !.beginEndMeterValues = beginEnd,
          !.outOfOrderEndMeterValues = outOfOrder] :
        strict \in BOOLEAN, beginEnd \in BOOLEAN, outOfOrder \in BOOLEAN}

InitStop ==
    /\ registration = "Registered"
    /\ stationInfo \in EndMeterValuesInfos
    /\ configurationKey \in {s \in InitialStores :
                                /\ s[1].key = HeartBeatInterval
                                /\ ~s[1].readonly
                                /\ s[2].visible = "true"}
    /\ lastCall = NoCall
    /\ ocppRequestService = TRUE
    /\ InitStation(Descriptor(MaxConnectors, MaxStopReq))

NextStop ==
    \E m \in 1..MaxStopReq :
        \/ RemoteStartTransaction(m, 1, "TAG", NoProfile)
        \/ RemoteStartStatusSent(m)
        \/ \E status \in ResponseStatuses : RemoteStartStarted(m, status)
        \/ RemoteStartRejectedStatusSent(m)
        \/ \E id \in RequestConnectorIds : UnlockConnector(m, id)
        \/ UnlockConnectorMeterValuesSent(m)
        \/ \E status \in ResponseStatuses : UnlockConnectorStopped(m, status)
        \/ UnlockConnectorStatusSent(m)
        \/ \E tx \in 1..MaxTx : RemoteStopTransaction(m, tx)
        \/ RemoteStopStatusSent(m)
        \/ RemoteStopMeterValuesSent(m)
        \/ RemoteStopStopped(m)

SpecStop == InitStop /\ [][NextStop]_vars

\* The generator alone on a registered station whose availability nothing
\* changes, with the timer of the duration sleep firing: the sleep of a
\* driver for the duration of its transaction ends.
InitGenerator ==
    /\ registration = "Registered"
    /\ stationInfo \in {StationInfo(FALSE, {}, FALSE),
                         StationInfo(TRUE, AuthorizedTags, TRUE)}
    /\ configurationKey \in {s \in InitialStores :
                                /\ s[1].key = HeartBeatInterval
                                /\ ~s[1].readonly
                                /\ s[2].visible = "true"}
    /\ lastCall = NoCall
    /\ ocppRequestService = FALSE
    /\ InitStation(Descriptor(MaxConnectors, 0))

DurationSleepEnds ==
    \A id \in 1..MaxConnectors : WF_vars(LoopDurationWake(id))

SpecGeneratorFair ==
    /\ InitGenerator
    /\ [][OcppRequestServiceCreated \/ NextGenerator]_vars
    /\ DurationSleepEnds

\* The generator with a Central System whose answers may fail to arrive:
\* the requests of the drivers and of stop() may raise an error.
NextGeneratorErrors ==
    \/ OcppRequestServiceCreated
    \/ NextGenerator
    \/ \E id \in 1..MaxConnectors : LoopRequestFails(id)
    \/ \E caller \in ConnectorIds : StopCallFails(caller)

SpecGeneratorErrors == InitGenerator /\ [][NextGeneratorErrors]_vars

\* The feature profiles: a station, with or without the RemoteTrigger and
\* FirmwareManagement feature profiles, that receives TriggerMessage and
\* GetDiagnostics, and the change of availability that changes the status
\* a triggered StatusNotification reports.
FeatureProfileInfos ==
    {[StationInfo(FALSE, {}, FALSE) EXCEPT !.remoteTrigger = remoteTrigger,
                                           !.firmwareManagement = firmware] :
        remoteTrigger \in BOOLEAN, firmware \in BOOLEAN}

\* The connectorId of a TriggerMessage payload: none, a negative one, the
\* station, a connector, and an id that is not in the connector map.
TriggerConnectorIds ==
    {<<FALSE, -1>>} \cup {<<TRUE, id>> : id \in {-1, 0, 1, MaxConnectors + 1}}

InitFeatureProfiles ==
    /\ registration = "Registered"
    /\ stationInfo \in FeatureProfileInfos
    /\ configurationKey \in {s \in InitialStores :
                                /\ s[1].key = HeartBeatInterval
                                /\ ~s[1].readonly
                                /\ s[2].visible = "true"}
    /\ lastCall = NoCall
    /\ ocppRequestService = TRUE
    /\ InitStation(Descriptor(MaxConnectors, MaxReq))

NextFeatureProfiles ==
    \E m \in 1..MaxReq :
        \/ \E requestedMessage \in RequestedMessages, id \in TriggerConnectorIds :
              TriggerMessage(m, requestedMessage, id[1], id[2])
        \/ TriggerMessageDelayPassed(m)
        \/ \E outcome \in BootNotificationOutcomes :
              TriggeredBootNotificationAnswered(m, outcome)
        \/ \E location \in Locations, archived \in BOOLEAN :
              GetDiagnostics(m, location, archived)
        \/ \E outcome \in FtpAccessOutcomes : GetDiagnosticsAccessed(m, outcome)
        \/ GetDiagnosticsProgress(m)
        \/ \E outcome \in FtpUploadOutcomes : GetDiagnosticsUploaded(m, outcome)
        \/ \E answered \in BOOLEAN : GetDiagnosticsUploadedSent(m, answered)
        \/ \E answered \in BOOLEAN : GetDiagnosticsFailedSent(m, answered)
        \/ \E answered \in BOOLEAN : GetDiagnosticsUnsupportedSent(m, answered)
        \/ \E type \in {"Operative", "Inoperative"} : ChangeAvailability(m, 1, type)
        \/ ChangeAvailabilityStatusSent(m)

SpecFeatureProfiles == InitFeatureProfiles /\ [][NextFeatureProfiles]_vars

(***************************************************************************)
(* Properties of the configuration commands (SpecConfiguration).           *)
(***************************************************************************)
Count(events, e) == Cardinality({i \in 1..Len(events) : events[i] = e})

HandledChangeConfiguration ==
    lastCall.command = "ChangeConfiguration" /\ lastCall.outcome = "response"

\* The entry the handler looked up for the last request, in the store as
\* it was before the request (0: none).
KeyToChange == getConfigurationKey(lastCall.before, lastCall.key, TRUE)

ValueOf(s, key) == s[getConfigurationKey(s, key, FALSE)].value

ValueChangedOf(keys) ==
    \E i \in 1..Len(lastCall.before) :
        /\ lastCall.before[i].key \in keys
        /\ configurationKey[i].value # lastCall.before[i].value

\* C9: a handled ChangeConfiguration restarts the heartbeat once when it
\* changed the value of a heartbeat alias and the ping once when it changed
\* the value of WebSocketPingInterval, before sendResponse; it restarts
\* neither timer when it is refused, when the entry it found is another
\* key, or when the entry already holds the value.
C9_RestartOncePerChange ==
    /\ HandledChangeConfiguration =>
        /\ Count(lastCall.events, "restartHeartbeat")
              = IF ValueChangedOf({HeartBeatInterval, HeartbeatInterval}) THEN 1 ELSE 0
        /\ Count(lastCall.events, "restartWebSocketPing")
              = IF ValueChangedOf({WebSocketPingInterval}) THEN 1 ELSE 0
        /\ Count(lastCall.events, "sendResponse") = 1
        /\ lastCall.events[Len(lastCall.events)] = "sendResponse"
        /\ (\/ lastCall.response \in {"Rejected", "NotSupported"}
            \/ lastCall.before[KeyToChange].key \notin
                  {HeartBeatInterval, HeartbeatInterval, WebSocketPingInterval}
            \/ lastCall.before[KeyToChange].value = lastCall.value)
           => lastCall.events = <<"sendResponse">>
    /\ (lastCall.command = "ChangeConfiguration" /\ lastCall.outcome # "response")
        => lastCall.events = <<>>

C9_Witness ==
    /\ HandledChangeConfiguration
    /\ lastCall.key = HeartBeatInterval
    /\ ValueChangedOf({HeartBeatInterval, HeartbeatInterval})
    /\ lastCall.events = <<"restartHeartbeat", "sendResponse">>

\* A stored entry that the last request names exactly, writable and visible
\* before the request.
WritableVisibleKey ==
    \E i \in 1..Len(lastCall.before) :
        /\ lastCall.before[i].key = lastCall.key
        /\ ~lastCall.before[i].readonly
        /\ isVisible(lastCall.before[i])

C11_CaseSensitiveKeys ==
    (/\ HandledChangeConfiguration
     /\ \A i \in 1..Len(lastCall.before) : lastCall.before[i].key # lastCall.key)
    => /\ lastCall.response = "NotSupported"
       /\ configurationKey = lastCall.before

(***************************************************************************)
(* Properties of the generator and of the connector commands (Spec).      *)
(***************************************************************************)
\* C1: when a call of stop() returns, every transaction that was running
\* when the call began has had exactly one StopTransaction emitted, counted
\* over all emitters.
C1_StopExactlyOnce ==
    stopReturned.returned =>
        \A tx \in stopReturned.snap : stops[tx].stop + stops[tx].others = 1

\* C2: no StartTransaction is emitted for a connector whose
\* transactionStarted is true, and no connector has two transactions open
\* at the Central System.
C2_AtMostOneTransaction ==
    /\ emitted.command = "StartTransaction" => ~emitted.started
    /\ \A id \in DOMAIN connectors :
          Cardinality({t \in csOpen : t.connectorId = id}) <= 1

\* C3: no StartTransaction is emitted for a connector whose availability
\* is Inoperative when the request is sent.
C3_NoStartOnInoperative ==
    emitted.command = "StartTransaction" => emitted.availability # "Inoperative"

\* C4: every connector with transactionStarted has a transactionId and a
\* transactionIdTag.
C4_StartedHasIdAndTag ==
    \A id \in DOMAIN connectors :
        connectors[id].transactionStarted =>
            /\ connectors[id].transactionId # NoTransaction
            /\ connectors[id].transactionIdTag # Null

\* C5: the driver of a connector, RemoteStopTransaction and UnlockConnector
\* together emit at most one StopTransaction for a transaction.
C5_AtMostOneStop ==
    \A tx \in DOMAIN stops : stops[tx].others <= 1

(***************************************************************************)
(* Properties of the charging profiles (SpecProfiles).                     *)
(***************************************************************************)
\* The profile stacks of all connectors.
Stacks(cn) == [id \in DOMAIN cn |-> cn[id].chargingProfiles]

\* The handling of request h ended with a response of its handler.
Answered(h, command) ==
    h.command = command /\ h.pc = "done" /\ h.outcome = "response"

\* The last request handled was a SetChargingProfile for a TxProfile on
\* connector 0 or on a connector that has no running transaction.
SetTxProfileWithoutTransaction ==
    /\ Answered(handled, "SetChargingProfile")
    /\ handled.chargingProfile.chargingProfilePurpose = "TxProfile"
    /\ handled.connectorId \in DOMAIN connectors
    /\ (handled.connectorId = 0
          \/ ~connectors[handled.connectorId].transactionStarted)

\* C12 as stated: a SetChargingProfile with purpose TxProfile on connector 0
\* or on a connector that has no running transaction returns Rejected and
\* leaves the chargingProfiles of every connector unchanged.
C12_TxProfileRejected ==
    [][SetTxProfileWithoutTransaction' =>
          /\ handled'.response = "Rejected"
          /\ Stacks(connectors') = Stacks(connectors)]_vars

\* C12 as amended: on a station whose SmartCharging feature profile is
\* enabled, a SetChargingProfile with purpose TxProfile on connector 0 or on
\* a connector that has no running transaction returns Rejected; with the
\* feature profile disabled it returns NotSupported; in both cases the
\* chargingProfiles of every connector are left unchanged.
C12_TxProfileRejectedSmartCharging ==
    [][SetTxProfileWithoutTransaction' =>
          /\ handled'.response =
                (IF stationInfo.smartCharging THEN "Rejected" ELSE "NotSupported")
          /\ Stacks(connectors') = Stacks(connectors)]_vars

C12_Witness ==
    /\ SetTxProfileWithoutTransaction
    /\ stationInfo.smartCharging
    /\ handled.connectorId = 1
    /\ handled.response = "Rejected"
    /\ connectors[1].chargingProfiles = <<Profile(7, "TxDefaultProfile", 0)>>

\* C13: every TxProfile stored in a connector's chargingProfiles sits on a
\* connector with id > 0 whose transactionStarted is true, and every
\* ChargePointMaxProfile sits on connector 0.
C13_ProfilesWhereAllowed ==
    \A id \in DOMAIN connectors :
        \A i \in 1..Len(connectors[id].chargingProfiles) :
            LET cp == connectors[id].chargingProfiles[i]
            IN /\ cp.chargingProfilePurpose = "TxProfile"
                    => (id > 0 /\ connectors[id].transactionStarted)
               /\ cp.chargingProfilePurpose = "ChargePointMaxProfile" => id = 0

\* Connector k holds a profile with the id; it holds a placeholder.
HoldsProfileId(cn, k, id) ==
    \E i \in 1..Len(cn[k].chargingProfiles) :
        cn[k].chargingProfiles[i].chargingProfileId = id
HoldsPlaceholder(cn, k) ==
    \E i \in 1..Len(cn[k].chargingProfiles) :
        cn[k].chargingProfiles[i] \in {EmptyProfile, Hole}

ProfileIds == {cp.chargingProfileId : cp \in SetProfiles}

\* C14: with SmartCharging enabled, a ClearChargingProfile with an id and no
\* connectorId leaves no connector holding a profile with that id, and
\* returns Accepted when some connector held one.
C14_ClearByIdOnAllConnectors ==
    [][(/\ Answered(handled', "ClearChargingProfile")
        /\ stationInfo.smartCharging
        /\ handled'.connectorId = UndefinedNumber
        /\ handled'.chargingProfile.chargingProfileId \in ProfileIds)
       => LET id == handled'.chargingProfile.chargingProfileId
          IN /\ (\E k \in DOMAIN connectors : HoldsProfileId(connectors, k, id))
                   => handled'.response = "Accepted"
             /\ \A k \in DOMAIN connectors : ~HoldsProfileId(connectors', k, id)]_vars

\* Request h is a ClearChargingProfile that names the id, for connector c
\* or for no connector.
ClearMatches(h, c, id) ==
    /\ Answered(h, "ClearChargingProfile")
    /\ h.chargingProfile.chargingProfileId = id
    /\ h.connectorId \in {UndefinedNumber, c}

\* C15: with SmartCharging enabled, a ClearChargingProfile that names the id
\* of a profile connector c holds leaves the stack of c with no entry of that
\* id and no placeholder; a SetChargingProfile with the same id accepted on c
\* right after it leaves exactly one entry with that id and no placeholder.
C15_ClearThenInsert ==
    [][\A c \in DOMAIN connectors, id \in ProfileIds :
          /\ (/\ stationInfo.smartCharging
              /\ ClearMatches(handled', c, id)
              /\ HoldsProfileId(connectors, c, id))
             => /\ ~HoldsProfileId(connectors', c, id)
                /\ ~HoldsPlaceholder(connectors', c)
          /\ (/\ ClearMatches(handled, c, id)
              /\ Answered(handled', "SetChargingProfile")
              /\ handled'.connectorId = c
              /\ handled'.chargingProfile.chargingProfileId = id
              /\ handled'.response = "Accepted")
             => /\ Cardinality({i \in 1..Len(connectors'[c].chargingProfiles) :
                        connectors'[c].chargingProfiles[i].chargingProfileId = id}) = 1
                /\ ~HoldsPlaceholder(connectors', c)]_vars

(***************************************************************************)
(* Properties of ChangeAvailability (SpecRouter).                          *)
(***************************************************************************)
\* The handling of a ChangeAvailability for the whole station just ended
\* with the response Accepted or Scheduled.
ChangedStationAvailability ==
    /\ Answered(handled, "ChangeAvailability")
    /\ handled.connectorId = 0
    /\ handled.response \in {"Accepted", "Scheduled"}

\* C16: when ChangeAvailability(connectorId = 0, type) completes with
\* Accepted or Scheduled, every connector, connector 0 included, has
\* availability = type.
C16_AllConnectorsGetType ==
    ChangedStationAvailability =>
        \A id \in DOMAIN connectors : connectors[id].availability = handled.type

\* C17: when ChangeAvailability(connectorId = 0, Inoperative) completes,
\* the status of every connector is Unavailable.
C17_InoperativeStationUnavailable ==
    (ChangedStationAvailability /\ handled.type = "Inoperative") =>
        \A id \in DOMAIN connectors : connectors[id].status = "Unavailable"

(***************************************************************************)
(* Properties of the router (SpecRouter).                                  *)
(***************************************************************************)
\* The condition under which the router accepts a command.
Accepts == isRegistered \/ (~getOcppStrictCompliance /\ isInUnknownState)

\* A handler ran for the request whose handling just ended.
HandlerRan == handled.outcome \in {"response", "HandlerError"}

RouterGate ==
    /\ \A m \in DOMAIN hand : hand[m].pc \notin {"unsent", "done"} => Accepts
    /\ handled.pc = "done" =>
          /\ HandlerRan <=> (Accepts /\ handled.command \in IncomingRequestHandlers)
          /\ handled.sent = (IF handled.outcome = "response" THEN 1 ELSE 0)
          /\ ~Accepts => handled.outcome = "SecurityError"
          /\ handled.outcome = "NotImplemented"
                <=> (Accepts /\ handled.command \notin IncomingRequestHandlers)
    /\ lastCall.command # Null =>
          /\ lastCall.outcome = "response" <=> Accepts
          /\ Count(lastCall.events, "sendResponse") = (IF Accepts THEN 1 ELSE 0)
          /\ ~Accepts => /\ lastCall.outcome = "SecurityError"
                         /\ lastCall.events = <<>>

\* C6: the router runs the handler of a command exactly when the station is
\* Registered, or strict compliance is off and the registration is Unknown,
\* and it sends a response exactly when that handler returned one.
\* Otherwise the request fails with SecurityError, no handler runs, no
\* response is sent and no step changes a connector or the configuration;
\* NotImplemented is the outcome exactly of a command without handler that
\* was accepted.
C6_RouterGate ==
    /\ []RouterGate
    /\ [][~Accepts => UNCHANGED <<connectors, configurationKey>>]_vars

C6_Witness ==
    /\ registration = "Pending"
    /\ getOcppStrictCompliance
    /\ handled.pc = "done"
    /\ handled.command = "RemoteStartTransaction"
    /\ handled.outcome = "SecurityError"
    /\ handled.sent = 0
    /\ connectors = [id \in DOMAIN connectors |-> NewConnector]

(***************************************************************************)
(* Properties of RemoteStartTransaction (SpecRemoteStart).                 *)
(***************************************************************************)
\* The RemoteStartTransaction handlers: the suspended ones and the one that
\* ended in the last step.
RemoteStartHandlers ==
    {h \in {hand[m] : m \in DOMAIN hand} \cup {handled} :
        h.command = "RemoteStartTransaction"}

\* Handler h has sent a request of the command.
Sent(h, command) ==
    \E i \in 1..Len(h.requests) : h.requests[i][1] = command

\* The tag is authorized by the station's local list.
LocalAuthorized(idTag) ==
    /\ stationInfo.localAuthListEnabled
    /\ hasAuthorizedTags
    /\ idTag \in stationInfo.authorizedTags

\* C19: with AuthorizeRemoteTxRequests on, a RemoteStartTransaction handler
\* has sent StartTransaction only if its idTag is in the local list or else
\* MayAuthorizeAtRemoteStart is on and its Authorize response was Accepted;
\* it has sent Authorize only in the second case; when the tag misses the
\* local list and MayAuthorizeAtRemoteStart is off it returns Rejected having
\* sent neither.
C19_StartOnlyIfAuthorized ==
    stationInfo.authorizeRemoteTxRequests =>
        \A h \in RemoteStartHandlers :
            /\ Sent(h, "StartTransaction") =>
                  \/ LocalAuthorized(h.idTag)
                  \/ /\ stationInfo.mayAuthorizeAtRemoteStart
                     /\ h.authorize = "Accepted"
            /\ Sent(h, "Authorize") =>
                  /\ ~LocalAuthorized(h.idTag)
                  /\ stationInfo.mayAuthorizeAtRemoteStart
            /\ (/\ h.pc = "done"
                /\ h.outcome = "response"
                /\ ~LocalAuthorized(h.idTag)
                /\ ~stationInfo.mayAuthorizeAtRemoteStart)
               => /\ ~Sent(h, "Authorize")
                  /\ ~Sent(h, "StartTransaction")
                  /\ h.response = "Rejected"

C19_Witness ==
    /\ stationInfo.authorizeRemoteTxRequests
    /\ stationInfo.localAuthListEnabled
    /\ hasAuthorizedTags
    /\ ~stationInfo.mayAuthorizeAtRemoteStart
    /\ handled.command = "RemoteStartTransaction"
    /\ handled.connectorId = 1
    /\ handled.idTag = "GUEST"
    /\ handled.response = "Rejected"
    /\ handled.requests = << <<"StatusNotification", "Preparing">>,
                             <<"StatusNotification", "Available">> >>

\* Handler h is for a connector id > 0 of the station.
OnKnownConnector(h) == h.connectorId > 0 /\ h.connectorId \in DOMAIN connectors

\* C20: a RemoteStartTransaction handler for a known connector id > 0 sends
\* StatusNotification(Preparing) before any other request and sets the status
\* to Preparing when that notification is answered, before it sends Authorize
\* or StartTransaction; when it returns Rejected, a
\* StatusNotification(Available) was sent for the connector after its
\* Preparing one and the status of the connector is Available.
C20_PreparingThenRollback ==
    /\ [](/\ \A h \in RemoteStartHandlers :
                (OnKnownConnector(h) /\ h.requests # <<>>) =>
                    h.requests[1] = <<"StatusNotification", "Preparing">>
          /\ (/\ Answered(handled, "RemoteStartTransaction")
              /\ OnKnownConnector(handled)
              /\ handled.response = "Rejected")
             => /\ handled.availableSent
                /\ connectors[handled.connectorId].status = "Available")
    /\ [][\A m \in DOMAIN hand :
              (/\ hand[m].pc = "remoteStartStatus"
               /\ hand'[m].pc \in {"remoteStartAuthorize", "remoteStartStart"})
              => connectors'[hand[m].connectorId].status = "Preparing"]_vars

(***************************************************************************)
(* Properties of UnlockConnector (Spec).                                   *)
(***************************************************************************)
\* The handling of request h, an UnlockConnector for connector 0, ended.
UnlockedStation(h) ==
    h.command = "UnlockConnector" /\ h.connectorId = 0 /\ h.pc = "done"

\* C18: an UnlockConnector with connectorId = 0 that the router accepts
\* returns NotSupported at once, in every state of the station; whether
\* accepted or not, its handling emits no outbound request, changes no
\* connector and is never suspended.
C18_UnlockStationNotSupported ==
    /\ [](/\ (UnlockedStation(handled) /\ Accepts) =>
                (handled.outcome = "response" /\ handled.response = "NotSupported")
          /\ \A m \in DOMAIN hand :
                ~(hand[m].command = "UnlockConnector" /\ hand[m].connectorId = 0))
    /\ [][UnlockedStation(handled') =>
              (emitted' = NoEmission /\ connectors' = connectors)]_vars

C18_Witness ==
    /\ UnlockedStation(handled)
    /\ handled.response = "NotSupported"
    /\ connectors[1].transactionStarted
    /\ connectors[1].status = "Charging"

(***************************************************************************)
(* Properties of RemoteStopTransaction (Spec).                             *)
(***************************************************************************)
\* Request m arrives in this step.
ArrivesNow(m) == hand[m].pc = "unsent" /\ hand'[m].pc # "unsent"

\* The request that arrives in this step as message m.
Arriving(m) == IF hand'[m].pc = "done" THEN handled' ELSE hand'[m]

\* No connector id > 0 has transaction id tx.
MatchesNoConnector(tx) ==
    \A id \in DOMAIN connectors : id > 0 => connectors[id].transactionId # tx

\* C21: a RemoteStopTransaction that the router accepts and whose
\* transactionId is the transactionId of no connector id > 0 returns Rejected
\* at once: its handler sends no request (no StatusNotification, no
\* MeterValues, no StopTransaction) and the connector map is unchanged.
C21_UnknownTransactionRejected ==
    [][\A m \in DOMAIN hand :
          (/\ ArrivesNow(m)
           /\ Arriving(m).command = "RemoteStopTransaction"
           /\ Accepts
           /\ MatchesNoConnector(Arriving(m).transactionId))
          => /\ hand'[m].pc = "done"
             /\ handled'.outcome = "response"
             /\ handled'.response = "Rejected"
             /\ handled'.requests = <<>>
             /\ emitted' = NoEmission
             /\ connectors' = connectors]_vars

\* A RemoteStopTransaction for a transaction that no connector holds was
\* rejected while another transaction was running.
C21_Witness ==
    /\ Answered(handled, "RemoteStopTransaction")
    /\ handled.response = "Rejected"
    /\ handled.transactionId = 2
    /\ connectors[1].transactionStarted
    /\ connectors[1].transactionId = 1

(***************************************************************************)
(* Properties of TriggerMessage and GetDiagnostics (SpecFeatureProfiles).  *)
(***************************************************************************)
\* The TriggerMessage whose connectorId is negative.
NegativeConnectorId(h) ==
    h.command = "TriggerMessage" /\ h.hasConnectorId /\ h.connectorId < 0

\* C22: a TriggerMessage that the router accepts is answered at once; with
\* the RemoteTrigger feature profile disabled the response is NotImplemented
\* for every payload, and with it enabled the response to a negative
\* connectorId is Rejected for every requested message.  In both cases no
\* timer is left behind and no request is sent, in that step or later.
C22_NegativeConnectorRejected ==
    /\ [](\A m \in DOMAIN hand :
             hand[m].command = "TriggerMessage" =>
                 /\ stationInfo.remoteTrigger
                 /\ ~NegativeConnectorId(hand[m]))
    /\ [][\A m \in DOMAIN hand :
              (/\ ArrivesNow(m)
               /\ Arriving(m).command = "TriggerMessage"
               /\ Accepts
               /\ (~stationInfo.remoteTrigger \/ NegativeConnectorId(Arriving(m))))
              => /\ hand'[m].pc = "done"
                 /\ handled'.outcome = "response"
                 /\ handled'.response =
                        (IF stationInfo.remoteTrigger THEN "Rejected"
                         ELSE "NotImplemented")
                 /\ handled'.requests = <<>>
                 /\ emitted' = NoEmission]_vars

C22_Witness ==
    /\ stationInfo.remoteTrigger
    /\ NegativeConnectorId(handled)
    /\ handled.requestedMessage = "StatusNotification"
    /\ handled.response = "Rejected"
    /\ \E m \in DOMAIN hand : hand[m].pc = "triggerDelay"

\* The handler of a GetDiagnostics ran to its end on a station that has the
\* FirmwareManagement feature profile.
DiagnosticsHandled ==
    /\ handled.command = "GetDiagnostics"
    /\ HandlerRan
    /\ stationInfo.firmwareManagement

\* The last request that handler h sent.
LastRequest(h) == h.requests[Len(h.requests)]

\* C23: the handler of a GetDiagnostics on a station with FirmwareManagement
\* returns a response, never an error, and the last request it sent is a
\* final DiagnosticsStatusNotification: Uploaded, with the response
\* { fileName }, only after the FTP access answered 220 and the upload
\* answered 226; UploadFailed, with the empty response, in every other case.
C23_FinalDiagnosticsStatus ==
    DiagnosticsHandled =>
        /\ handled.outcome = "response"
        /\ handled.requests # <<>>
        /\ \/ /\ LastRequest(handled) = <<"DiagnosticsStatusNotification", "Uploaded">>
              /\ handled.response = "fileName"
              /\ handled.ftp = <<220, 226>>
           \/ /\ LastRequest(handled) =
                     <<"DiagnosticsStatusNotification", "UploadFailed">>
              /\ handled.response = "Empty"

(***************************************************************************)
(* Properties of the order of a handler's requests and its response        *)
(* (SpecRouter).                                                           *)
(***************************************************************************)
ConnectorCommands ==
    {"UnlockConnector", "ChangeAvailability", "RemoteStartTransaction",
     "RemoteStopTransaction"}

\* The requests of handler h that have not ended yet.
InFlight(h) == (1..Len(h.requests)) \ h.answered

\* The place of a request in the text of the handler of the command.
ProgramOrder(command, request) ==
    CASE request[1] = "MeterValues" -> 2
      [] request[1] = "Authorize" -> 2
      [] request[1] = "StartTransaction" -> 3
      [] request[1] = "StopTransaction" -> 3
      [] request = <<"StatusNotification", "Available">> ->
            IF command = "ChangeAvailability" THEN 1 ELSE 4
      [] OTHER -> 1

\* The requests of h follow the text of its handler; ChangeAvailability
\* repeats its one request for each connector.
InProgramOrder(h) ==
    \A i, j \in 1..Len(h.requests) :
        i < j =>
            IF h.command = "ChangeAvailability"
            THEN h.requests[i] = h.requests[j]
            ELSE ProgramOrder(h.command, h.requests[i])
                     < ProgramOrder(h.command, h.requests[j])

\* C24: a handler of UnlockConnector, ChangeAvailability,
\* RemoteStartTransaction or RemoteStopTransaction sends its requests in the
\* order of its text and each only after the one before has ended; when the
\* response of the command is sent, every request of the handler has ended
\* and the step that sends the response sends no request.
C24_RequestsEndBeforeResponse ==
    /\ [](/\ \A h \in {hand[m] : m \in DOMAIN hand} \cup {handled} :
                h.command \in ConnectorCommands =>
                    /\ InProgramOrder(h)
                    /\ InFlight(h) \subseteq {Len(h.requests)}
          /\ (handled.command \in ConnectorCommands /\ handled.outcome = "response")
             => InFlight(handled) = {})
    /\ [][(handled'.command \in ConnectorCommands /\ handled'.outcome = "response")
              => emitted' = NoEmission]_vars

\* A RemoteStartTransaction was rejected after four requests.
C24_Witness ==
    /\ handled.command = "RemoteStartTransaction"
    /\ handled.outcome = "response"
    /\ handled.requests = << <<"StatusNotification", "Preparing">>,
                             <<"Authorize", Null>>,
                             <<"StartTransaction", Null>>,
                             <<"StatusNotification", "Available">> >>
    /\ handled.answered = 1..4

(***************************************************************************)
(* Liveness of the generator (SpecGeneratorFair).                          *)
(***************************************************************************)
\* The reason of a StopTransaction request: sendStopTransaction called
\* without a reason sends the reason None.
sendStopTransactionReason(e) == IF e.detail = Null THEN "None" ELSE e.detail

\* Transaction tx runs on connector id.
RunsOn(id, tx) ==
    connectors[id].transactionStarted /\ connectors[id].transactionId = tx

\* The driver of a connector has just sent the StopTransaction of tx.
StoppedByLoop(tx) ==
    /\ emitted.command = "StopTransaction"
    /\ emitted.transactionId = tx
    /\ emitted.by = "stopTransaction"
    /\ sendStopTransactionReason(emitted) = "None"

\* C25: when the driver of a connector sleeps for the duration of the
\* transaction it started, then eventually the driver sends a
\* StopTransaction with reason None for that transaction, unless the
\* transaction has stopped running on the connector before the sleep ends.
C25_StartedIsStopped ==
    \A id \in 1..MaxConnectors, tx \in 1..MaxTx :
        (loop[id].pc = "sleepDuration" /\ RunsOn(id, tx))
            ~> (StoppedByLoop(tx) \/ ~RunsOn(id, tx))

\* The driver of connector 1 has sent the StopTransaction of the second
\* transaction while the first still runs on connector 2.
C25_Witness ==
    /\ StoppedByLoop(2)
    /\ emitted.connectorId = 1
    /\ loop[1].pc = "awaitStop"
    /\ RunsOn(2, 1)

(***************************************************************************)
(* Properties of the generator when requests fail (SpecGeneratorErrors).   *)
(***************************************************************************)
\* C26: a driver whose request (Authorize, StartTransaction, StopTransaction,
\* also the one of a stop() it called) raised an error has not ended, and
\* the step in which the request fails leaves the drivers of the other
\* connectors as they are.
C26_FailureDoesNotEndDriver ==
    /\ [](\A id \in DOMAIN loop : loop[id].error => loop[id].pc # "done")
    /\ [][\A id \in DOMAIN loop :
              (~loop[id].error /\ loop'[id].error)
              => \A other \in DOMAIN loop \ {id} : loop'[other] = loop[other]]_vars

(***************************************************************************)
(* Properties of GetConfiguration.                                         *)
(***************************************************************************)
HandledGetConfiguration ==
    lastCall.command = "GetConfiguration" /\ lastCall.outcome = "response"

\* The entries of the response, and the visible entries of the store the
\* request found (an entry whose flag was never set is visible).
Reported ==
    {lastCall.configurationKey[j] : j \in 1..Len(lastCall.configurationKey)}
VisibleBefore ==
    {[key |-> lastCall.before[i].key, readonly |-> lastCall.before[i].readonly,
      value |-> lastCall.before[i].value] :
        i \in {n \in 1..Len(lastCall.before) :
                  lastCall.before[n].visible # "false"}}
StoredAs(key) ==
    {i \in 1..Len(lastCall.before) : lastCall.before[i].key = key}

\* C27: a GetConfiguration response holds no entry whose visible flag is
\* false; with an empty or absent key list it holds exactly the visible
\* entries, each once, and no unknown key; with a key list every requested
\* key that the store does not hold is in unknownKey and every requested key
\* that is stored and visible is in configurationKey with its current value
\* and readonly flag.
C27_GetConfigurationVisible ==
    HandledGetConfiguration
    => /\ \A r \in Reported : \A i \in StoredAs(r.key) :
              lastCall.before[i].visible # "false"
       /\ (lastCall.absent \/ lastCall.keys = <<>>)
          => /\ Reported = VisibleBefore
             /\ Len(lastCall.configurationKey) = Cardinality(VisibleBefore)
             /\ lastCall.unknownKey = <<>>
       /\ \A j \in 1..Len(lastCall.keys) :
              /\ StoredAs(lastCall.keys[j]) = {}
                 => \E u \in 1..Len(lastCall.unknownKey) :
                        lastCall.unknownKey[u] = lastCall.keys[j]
              /\ \A i \in StoredAs(lastCall.keys[j]) :
                     lastCall.before[i].visible # "false"
                     => [key |-> lastCall.keys[j],
                         readonly |-> lastCall.before[i].readonly,
                         value |-> lastCall.before[i].value] \in Reported

C27_Witness ==
    /\ HandledGetConfiguration
    /\ lastCall.absent
    /\ \E i \in 1..Len(lastCall.before) : lastCall.before[i].visible = "false"
    /\ \E i \in 1..Len(lastCall.before) :
           /\ lastCall.before[i].value = "30"
           /\ lastCall.before[i].key = HeartBeatInterval
    /\ Len(lastCall.configurationKey) = 4

(***************************************************************************)
(* Properties of ChangeAvailability: the response and what was sent.       *)
(***************************************************************************)
RunningTransaction(cn) == \E id \in DOMAIN cn : cn[id].transactionStarted

\* The requests of h are one StatusNotification(status) for each connector.
OneStatusPerConnector(h, status) ==
    /\ Len(h.requests) = Cardinality(DOMAIN connectors)
    /\ \A i \in 1..Len(h.requests) :
           h.requests[i] = <<"StatusNotification", status>>

\* C28: ChangeAvailability(connectorId = 0, type) returns Scheduled exactly
\* when a connector has a running transaction, else Accepted; with Scheduled
\* the handler has sent no StatusNotification and has changed no connector's
\* status; with Accepted it has sent exactly one StatusNotification of the
\* target status per connector and every connector has that status.
C28_ScheduledSendsNothing ==
    /\ [](ChangedStationAvailability
          => /\ handled.response = "Scheduled" <=> RunningTransaction(connectors)
             /\ handled.response = "Scheduled" => handled.requests = <<>>
             /\ handled.response = "Accepted"
                => /\ OneStatusPerConnector(handled, chargePointStatus(handled.type))
                   /\ \A id \in DOMAIN connectors :
                          connectors[id].status = chargePointStatus(handled.type))
    /\ [][(ChangedStationAvailability' /\ handled'.response = "Scheduled")
          => \A id \in DOMAIN connectors :
                 connectors'[id].status = connectors[id].status]_vars

\* A ChangeAvailability for a connector id > 0 that the station has.
ChangesConnector(h) ==
    /\ h.command = "ChangeAvailability"
    /\ h.connectorId \in DOMAIN connectors \ {0}

\* The station is Inoperative and the request asks for Operative.
Refused(h) ==
    connectors[0].availability = "Inoperative" /\ h.type = "Operative"

\* C29: a ChangeAvailability(k, type) for a known connector k > 0 that the
\* router accepts: when connector 0 is Inoperative and type is Operative it
\* returns Rejected, sends nothing and leaves connector k's availability and
\* status; otherwise, when connector k has a running transaction, it returns
\* Scheduled, sets k's availability to type, leaves its status and sends
\* nothing; otherwise it sets k's availability to type, sends one
\* StatusNotification of the target status, and when that request has ended
\* it sets k's status to the target status and returns Accepted.
C29_ConnectorAvailability ==
    [][\A m \in DOMAIN hand :
          LET h == Arriving(m)
              k == h.connectorId
              target == IF h.type = "Operative" THEN "Available" ELSE "Unavailable"
          IN /\ (ArrivesNow(m) /\ Accepts /\ ChangesConnector(h))
                => /\ Refused(h)
                      => /\ hand'[m].pc = "done"
                         /\ handled'.outcome = "response"
                         /\ handled'.response = "Rejected"
                         /\ handled'.requests = <<>>
                         /\ emitted' = NoEmission
                         /\ connectors'[k].availability = connectors[k].availability
                         /\ connectors'[k].status = connectors[k].status
                   /\ (~Refused(h) /\ connectors[k].transactionStarted)
                      => /\ hand'[m].pc = "done"
                         /\ handled'.outcome = "response"
                         /\ handled'.response = "Scheduled"
                         /\ handled'.requests = <<>>
                         /\ emitted' = NoEmission
                         /\ connectors'[k].availability = h.type
                         /\ connectors'[k].status = connectors[k].status
                   /\ (~Refused(h) /\ ~connectors[k].transactionStarted)
                      => /\ hand'[m].pc \notin {"unsent", "done"}
                         /\ hand'[m].requests = <<<<"StatusNotification", target>>>>
                         /\ emitted'.command = "StatusNotification"
                         /\ emitted'.connectorId = k
                         /\ emitted'.detail = target
                         /\ connectors'[k].availability = h.type
                         /\ connectors'[k].status = connectors[k].status
             /\ (/\ ChangesConnector(hand[m])
                 /\ hand[m].pc \notin {"unsent", "done"}
                 /\ hand'[m].pc = "done")
                => /\ handled'.outcome = "response"
                   /\ handled'.response = "Accepted"
                   /\ handled'.requests
                        = <<<<"StatusNotification",
                              IF hand[m].type = "Operative"
                              THEN "Available" ELSE "Unavailable">>>>
                   /\ emitted' = NoEmission
                   /\ connectors'[hand[m].connectorId].status
                        = (IF hand[m].type = "Operative"
                           THEN "Available" ELSE "Unavailable")]_vars

\* A ChangeAvailability(1, Inoperative) was scheduled on an Operative
\* station whose connector 1 has a running transaction.
C29_Witness ==
    /\ Answered(handled, "ChangeAvailability")
    /\ handled.connectorId = 1
    /\ handled.type = "Inoperative"
    /\ handled.response = "Scheduled"
    /\ handled.requests = <<>>
    /\ connectors[0].availability = "Operative"
    /\ connectors[1].transactionStarted
    /\ connectors[1].availability = "Inoperative"
    /\ connectors[1].status = "Charging"

(***************************************************************************)
(* Properties of UnlockConnector on a running transaction (SpecStop).      *)
(***************************************************************************)
\* Handler h is an UnlockConnector that found a running transaction on its
\* connector and has not returned yet.
UnlocksRunning(h) ==
    h.command = "UnlockConnector" /\ h.pc \in {"unlockMeterValues", "unlockStop"}

\* The transaction-end MeterValues is due.
EndMeterValuesDue ==
    /\ stationInfo.beginEndMeterValues
    /\ stationInfo.ocppStrictCompliance
    /\ ~stationInfo.outOfOrderEndMeterValues

\* The requests of an UnlockConnector that stops a transaction.
UnlockRequests ==
    (IF EndMeterValuesDue THEN <<<<"MeterValues", "Transaction.End">>>> ELSE <<>>)
        \o <<<<"StopTransaction", "UnlockCommand">>>>

\* C30: an UnlockConnector that the router accepts for a connector id > 0
\* with a running transaction sends exactly one StopTransaction, for that
\* transaction and with reason UnlockCommand, preceded by one transaction-end
\* MeterValues exactly when begin/end meter values and strict compliance are
\* on and out-of-order end meter values is off, sends no StatusNotification
\* and no other request, and returns Unlocked when the StopTransaction
\* response is Accepted and UnlockFailed when it is not.
C30_UnlockStopsTransaction ==
    [][\A m \in DOMAIN hand :
          LET k == hand'[m].connectorId
              tx == connectors[k].transactionId
          IN /\ (/\ ArrivesNow(m)
                 /\ Accepts
                 /\ Arriving(m).command = "UnlockConnector"
                 /\ Arriving(m).connectorId \in DOMAIN connectors \ {0}
                 /\ connectors[Arriving(m).connectorId].transactionStarted)
                => /\ UnlocksRunning(hand'[m])
                   /\ hand'[m].transactionId = tx
                   /\ emitted'.transactionId = tx
                   /\ emitted'.connectorId = k
                   /\ hand'[m].requests = SubSeq(UnlockRequests, 1, 1)
                   /\ <<emitted'.command, emitted'.detail>> = UnlockRequests[1]
             /\ (hand[m].pc = "unlockMeterValues" /\ hand'[m].pc # hand[m].pc)
                => /\ hand'[m].pc = "unlockStop"
                   /\ hand'[m].requests = UnlockRequests
                   /\ emitted'.command = "StopTransaction"
                   /\ emitted'.detail = "UnlockCommand"
                   /\ emitted'.transactionId = hand[m].transactionId
             /\ (hand[m].pc = "unlockStop" /\ hand'[m].pc # hand[m].pc)
                => /\ hand'[m].pc = "done"
                   /\ handled'.outcome = "response"
                   /\ handled'.requests = UnlockRequests
                   /\ emitted' = NoEmission
                   /\ handled'.response
                        = (IF handled'.stop = "Accepted"
                           THEN "Unlocked" ELSE "UnlockFailed")]_vars

\* An UnlockConnector on connector 1 sent the MeterValues and the
\* StopTransaction of transaction 1 and returned UnlockFailed.
C30_Witness ==
    /\ Answered(handled, "UnlockConnector")
    /\ handled.connectorId = 1
    /\ handled.transactionId = 1
    /\ handled.requests = <<<<"MeterValues", "Transaction.End">>,
                            <<"StopTransaction", "UnlockCommand">>>>
    /\ handled.stop = "Invalid"
    /\ handled.response = "UnlockFailed"

(***************************************************************************)
(* Properties of ClearChargingProfile without connectorId (SpecProfiles).  *)
(***************************************************************************)
\* Stored profile p meets a criterion of the request with the fields q.
MatchesCriterion(p, q) ==
    \/ p.chargingProfileId = q.chargingProfileId
    \/ q.chargingProfilePurpose = Undefined /\ p.stackLevel = q.stackLevel
    \/ q.stackLevel = UndefinedNumber
          /\ p.chargingProfilePurpose = q.chargingProfilePurpose
    \/ p.stackLevel = q.stackLevel
          /\ p.chargingProfilePurpose = q.chargingProfilePurpose

\* The stack without the profiles the request matches.
RECURSIVE WithoutMatching(_, _)
WithoutMatching(profiles, q) ==
    IF profiles = <<>> THEN <<>>
    ELSE (IF MatchesCriterion(Head(profiles), q) THEN <<>> ELSE <<Head(profiles)>>)
         \o WithoutMatching(Tail(profiles), q)

\* C31: with SmartCharging enabled, a ClearChargingProfile without
\* connectorId removes from the stack of every connector exactly the
\* profiles that meet a criterion of the request (same id; purpose
\* unspecified and same stackLevel; stackLevel unspecified and same purpose;
\* same stackLevel and purpose), leaves the other profiles as they were, and
\* returns Accepted when it removed a profile and Unknown when it did not.
C31_ClearMatchingProfiles ==
    [][(/\ Answered(handled', "ClearChargingProfile")
        /\ stationInfo.smartCharging
        /\ handled'.connectorId = UndefinedNumber)
       => LET q == handled'.chargingProfile
          IN /\ \A k \in DOMAIN connectors :
                    connectors'[k].chargingProfiles
                      = WithoutMatching(connectors[k].chargingProfiles, q)
             /\ handled'.response
                  = (IF \E k \in DOMAIN connectors :
                            WithoutMatching(connectors[k].chargingProfiles, q)
                              # connectors[k].chargingProfiles
                     THEN "Accepted" ELSE "Unknown")]_vars

(***************************************************************************)
(* Properties of the rejected RemoteStartTransaction.                      *)
(***************************************************************************)
\* The handler of request m runs in this step.
Acting(m) == hand'[m].pc # hand[m].pc

\* A RemoteStartTransaction for the station or for a connector that the
\* station does not have.
StartsNoConnector(h) ==
    /\ h.command = "RemoteStartTransaction"
    /\ h.connectorId \notin DOMAIN connectors \ {0}

\* C32: a RemoteStartTransaction that the router accepts, with connectorId 0
\* or a connectorId that is not in the connector map, returns Rejected and
\* raises no error; no step of its handler sends Authorize or
\* StartTransaction or changes the status of a connector.
C32_StartWithoutConnectorRejected ==
    [][\A m \in DOMAIN hand :
          (Acting(m) /\ Accepts /\ StartsNoConnector(Arriving(m)))
          => /\ emitted'.command \notin {"Authorize", "StartTransaction"}
             /\ \A k \in DOMAIN connectors :
                    connectors'[k].status = connectors[k].status
             /\ hand'[m].pc = "done"
                => /\ handled'.outcome = "response"
                   /\ handled'.response = "Rejected"]_vars

(***************************************************************************)
(* Cancellation of the drivers (SpecGeneratorCancel).                      *)
(***************************************************************************)
\* The scheduler of the event loop: a spawned driver is run, every sleep of
\* a driver ends, and the Central System answers every request of a driver
\* and of stop(). When the station creates its request service is not the
\* scheduler's to decide.
LoopsScheduled ==
    /\ \A id \in 1..MaxConnectors :
          /\ WF_vars(LoopRun(id))
          /\ WF_vars(LoopInitWake(id))
          /\ WF_vars(\E start \in BOOLEAN, tagId \in AuthorizedTags \cup {Null} :
                        LoopDelayWake(id, start, tagId))
          /\ WF_vars(\E status \in ResponseStatuses :
                        LoopAuthorizeResponse(id, status))
          /\ WF_vars(\E status \in ResponseStatuses :
                        LoopStartResponse(id, status))
          /\ WF_vars(LoopWaitWake(id))
          /\ WF_vars(LoopDurationWake(id))
          /\ WF_vars(LoopStopResponse(id))
    /\ \A caller \in ConnectorIds : WF_vars(StopCallResponse(caller))

SpecGeneratorCancel ==
    /\ InitGenerator
    /\ [][OcppRequestServiceCreated \/ NextGenerator]_vars
    /\ LoopsScheduled

\* The driver of connector id is alive: spawned and not yet returned.
Alive(id) == loop[id].pc \notin {"idle", "done"}

\* C33: when timeToStop is set while the driver of a connector is alive,
\* then eventually the driver has ended, unless start() has cleared
\* timeToStop before: also a driver that waits for the request service of
\* the station.
C33_LoopsTerminate ==
    \A id \in 1..MaxConnectors :
        (timeToStop /\ Alive(id)) ~> (~Alive(id) \/ ~timeToStop)

(***************************************************************************)
(* The requests of a TriggerMessage (SpecFeatureProfiles).                 *)
(***************************************************************************)
\* The requests, as the record of a handler lists them, that a trigger
\* message is to bring about when the trigger delay is over: one request of
\* the requested kind, for a StatusNotification without connectorId one per
\* connector, each with the status of its connector.
DueRequests(h) ==
    IF h.requestedMessage = "StatusNotification"
    THEN IF h.hasConnectorId
         THEN IF h.connectorId \in DOMAIN connectors
              THEN <<<<"StatusNotification", connectors[h.connectorId].status>>>>
              ELSE <<<<"StatusNotification", Null>>>>
         ELSE [i \in 1..Cardinality(DOMAIN connectors) |->
                  <<"StatusNotification", connectors[i - 1].status>>]
    ELSE <<<<h.requestedMessage, Null>>>>

\* C34: on a station with the RemoteTrigger feature profile, a TriggerMessage
\* that the router accepts and whose connectorId is not negative returns
\* Accepted for BootNotification, Heartbeat and StatusNotification without
\* having sent a request, and NotImplemented without a timer and without a
\* request for any other message.  When the trigger delay is over the
\* request is sent once: a StatusNotification for the connectorId of the
\* payload (also for connectorId 0) with the status the connector has then,
\* or one for every connector when the payload has no connectorId.  Nothing
\* is sent for the trigger message after that.
C34_TriggeredOnce ==
    [][\A m \in DOMAIN hand :
          /\ (/\ ArrivesNow(m)
              /\ Arriving(m).command = "TriggerMessage"
              /\ Accepts
              /\ stationInfo.remoteTrigger
              /\ ~NegativeConnectorId(Arriving(m)))
             => /\ emitted' = NoEmission
                /\ Arriving(m).requests = <<>>
                /\ handled'.outcome = "response"
                /\ IF Arriving(m).requestedMessage \in TriggerMessages
                   THEN /\ handled'.response = "Accepted"
                        /\ hand'[m].pc = "triggerDelay"
                   ELSE /\ handled'.response = "NotImplemented"
                        /\ hand'[m].pc = "done"
          /\ (hand[m].pc = "triggerDelay" /\ hand'[m].pc # "triggerDelay")
             => /\ hand'[m].requests = DueRequests(hand[m])
                /\ emitted'.command = hand[m].requestedMessage
                /\ (hand[m].requestedMessage = "StatusNotification"
                    /\ hand[m].hasConnectorId)
                   => emitted'.connectorId = hand[m].connectorId
          /\ (hand[m].command = "TriggerMessage"
              /\ hand[m].pc \in {"triggerBoot", "triggered", "done"})
             => hand'[m].requests = hand[m].requests]_vars

(***************************************************************************)
(* The generator started again and again (SpecGeneratorRestart).           *)
(***************************************************************************)
\* A registered station with one connector whose generator is started and
\* stopped in any order: start() is called whatever the drivers of earlier
\* calls do, as long as the connector has fewer than MaxDrivers of them.
InitGeneratorRestart ==
    /\ registration = "Registered"
    /\ stationInfo \in {StationInfo(FALSE, {}, FALSE),
                         StationInfo(TRUE, AuthorizedTags, TRUE)}
    /\ configurationKey \in {s \in InitialStores :
                                /\ s[1].key = HeartBeatInterval
                                /\ ~s[1].readonly
                                /\ s[2].visible = "true"}
    /\ lastCall = NoCall
    /\ ocppRequestService = FALSE
    /\ InitDrivers(Descriptor(1, 0), MaxDrivers)

NextGeneratorRestart ==
    \/ OcppRequestServiceCreated
    \/ GeneratorStart
    \/ StopDatePasses
    \/ StationStop
    \/ \E caller \in {0} \cup DriverIds : StopCallResponse(caller)
    \/ \E id \in DriverIds :
          \/ LoopRun(id)
          \/ LoopInitWake(id)
          \/ \E go \in BOOLEAN,
                tagId \in (IF hasAuthorizedTags THEN stationInfo.authorizedTags
                           ELSE {Null}) :
                LoopDelayWake(id, go, tagId)
          \/ \E status \in ResponseStatuses : LoopAuthorizeResponse(id, status)
          \/ \E status \in ResponseStatuses : LoopStartResponse(id, status)
          \/ LoopWaitWake(id)
          \/ LoopDurationWake(id)
          \/ LoopStopResponse(id)

SpecGeneratorRestart == InitGeneratorRestart /\ [][NextGeneratorRestart]_vars

\* Driver d is in its loop: startOnConnector has been entered and has not
\* returned.
InLoop(d) == loop[d].pc \notin {"idle", "spawned", "done"}

\* C35: whatever the calls of start() and stop() were, at most one driver
\* is in its loop for a connector id > 0, and no driver for connector 0.
C35_OneDriverPerConnector ==
    /\ \A d \in DOMAIN loop : InLoop(d) => Connector(d) > 0
    /\ \A id \in DOMAIN connectors :
          Cardinality({d \in DOMAIN loop : InLoop(d) /\ Connector(d) = id}) <= 1

(***************************************************************************)
(* The stopped generator (SpecGeneratorFair).                              *)
(***************************************************************************)
\* timeToStop is set by the last statement of stop() and cleared by start()
\* only: it tells that a call of stop() has returned and start() has not
\* been called since.
\* C36: while the generator is stopped, from the return of stop() to the
\* next start(), no driver sends Authorize or StartTransaction, whatever
\* the driver was doing (sleeping between two transactions, waiting after a
\* rejected start) when stop() ran.
C36_StoppedSendsNoStart ==
    [][timeToStop => emitted'.command \notin {"Authorize", "StartTransaction"}]_vars

(***************************************************************************)
(* The generator and the remote transactions (SpecGeneratorRemote).        *)
(***************************************************************************)
\* A registered station with one connector, no authorized tags and its
\* request service created, whose generator runs while the station receives
\* RemoteStartTransaction and RemoteStopTransaction for the connector.  The
\* steps of the generator are those that such a station can take before the
\* stop date.
InitGeneratorRemote ==
    /\ registration = "Registered"
    /\ stationInfo = StationInfo(FALSE, {}, FALSE)
    /\ configurationKey \in {s \in InitialStores :
                                /\ s[1].key = HeartBeatInterval
                                /\ ~s[1].readonly
                                /\ s[2].visible = "true"}
    /\ lastCall = NoCall
    /\ ocppRequestService = TRUE
    /\ InitStation(Descriptor(1, MaxReq))

NextGeneratorRemote ==
    \/ ATGStart
    \/ StationStop
    \/ \E caller \in ConnectorIds : StopCallResponse(caller)
    \/ LoopRun(1)
    \/ \E go \in BOOLEAN : LoopDelayWake(1, go, Null)
    \/ \E status \in ResponseStatuses : LoopStartResponse(1, status)
    \/ LoopWaitWake(1)
    \/ LoopDurationWake(1)
    \/ LoopStopResponse(1)
    \/ \E m \in 1..MaxReq :
          \/ \E idTag \in RequestTags : RemoteStartTransaction(m, 1, idTag, NoProfile)
          \/ RemoteStartStatusSent(m)
          \/ \E status \in ResponseStatuses : RemoteStartStarted(m, status)
          \/ RemoteStartRejectedStatusSent(m)
          \/ \E tx \in 1..MaxTx : RemoteStopTransaction(m, tx)
          \/ RemoteStopStatusSent(m)
          \/ RemoteStopStopped(m)

SpecGeneratorRemote == InitGeneratorRemote /\ [][NextGeneratorRemote]_vars

\* C37: the StopTransaction that a driver sends when its duration sleep is
\* over is the StopTransaction of the transaction the driver started before
\* the sleep, never that of another transaction that runs on the connector
\* by then.
C37_LoopStopsItsOwn ==
    [][\A id \in DOMAIN loop :
          (loop[id].pc = "sleepDuration" /\ loop'[id].pc = "awaitStop")
          => /\ emitted'.command = "StopTransaction"
             /\ emitted'.transactionId = loop[id].transactionId]_vars

(***************************************************************************)
(* Availability and status of an idle connector (SpecRouter).              *)
(***************************************************************************)
\* No handler is between its arrival and its return.
NoHandlerRuns == \A m \in DOMAIN hand : hand[m].pc \in {"unsent", "done"}

\* C38: whenever no handler is under way, a connector whose availability is
\* Inoperative and on which no transaction runs does not have the status
\* Available, whatever handlers have run before (UnlockConnector without
\* transaction, a rejected RemoteStartTransaction, ChangeAvailability).
C38_InoperativeNotAvailable ==
    NoHandlerRuns
    => \A id \in DOMAIN connectors :
          (/\ connectors[id].availability = "Inoperative"
           /\ ~connectors[id].transactionStarted)
          => connectors[id].status # "Available"

(***************************************************************************)
(* The rejected remote start leaves no trace (SpecRemoteStart).            *)
(***************************************************************************)
\* C39: when a RemoteStartTransaction for a connector of the station
\* returns Rejected, the connector's transactionRemoteStarted,
\* authorizeIdTag, localAuthorizeIdTag, idTagLocalAuthorized and
\* chargingProfiles are what they were when the request arrived, whichever
\* step of the handler rejected it.
C39_RejectedStartLeavesNoTrace ==
    (/\ Answered(handled, "RemoteStartTransaction")
     /\ handled.response = "Rejected"
     /\ handled.connectorId \in DOMAIN connectors)
    => RemoteStartFields(connectors, handled.connectorId) = handled.before

====
